---- MODULE Spec2Model ----
(***************************************************************************)
(* Game state machine and event orchestration of the AIHL media app:       *)
(* the Games handler (src/lambda/games/index.mjs) and the Events handler   *)
(* (events part of src/unnamed/part_006) over the Games and Events tables. *)
(*                                                                         *)
(* A table is a function from the keys of its stored items to the items;   *)
(* an item is a record holding exactly the attributes that were written.   *)
(* The attributes that no operation reads back (createdAt, updatedAt, the  *)
(* denormalised team and player names, an event's gameTime and period)     *)
(* are not represented.  The Templates handler is that of                  *)
(* src/lambda/templates/index.mjs with the operations of                   *)
(* src/unnamed/part_007.                                                   *)
(***************************************************************************)
EXTENDS Integers, Sequences, FiniteSets, TLC

VARIABLES
    games,      \* Games table: gameId -> item
    events,     \* Events table: eventId -> item
    templates,  \* Templates table: templateId -> item
    last,       \* the step just taken: [op, id, res, arg]
    prev,       \* the Games table before the step just taken
    prevEvents, \* the Events table before the step just taken
    prevTemplates, \* the Templates table before the step just taken
    run,        \* per game: position in the scenario create, start, next-period...
    reqs        \* requests in flight (concurrent specifications): slot -> request

vars == <<games, events, templates, last, prev, prevEvents, prevTemplates, run, reqs>>

----------------------------------------------------------------------------
(* Bounds of the model *)

MaxScore == 1           \* createEvent/updateScore stop at this score
MaxReqs == 2            \* request slots of the concurrent specifications

(* Program constants *)

MaxPeriod == 5          \* nextPeriod refuses at currentPeriod >= 5
LastRegulationPeriod == 3

GameIds   == {"g1"}
EventIds  == {"e1", "e2"}
Teams     == {"T1", "T2"}              \* the Teams table (not written here)
Players   == {"P1"}                    \* the Players table (not written here)
PlayerTeam(p) == "T1"
Statuses  == {"scheduled", "in_progress", "completed", "cancelled"}
Times     == {"t1", "t2"}                \* new Date().toISOString() of a request
Slots     == 1..MaxReqs

Digits == {"0", "1", "2", "3", "4", "5", "6", "7", "8", "9"}
T2000  == <<"2", "0", ":", "0", "0">>  \* "20:00"
T500   == <<"5", ":", "0", "0">>       \* "5:00"

----------------------------------------------------------------------------
(* Responses: the status code and the message of the throw site *)

Ok == [code |-> 200, msg |-> "ok"]
Err(code, msg) == [code |-> code, msg |-> msg]

Has(item, attr) == attr \in DOMAIN item

(* JS truthiness of an optional string attribute: absent and "" are falsy *)
Truthy(item, attr) == Has(item, attr) /\ item[attr] # ""

(* DynamoDB UpdateCommand SET: writes the given attributes on the item with *)
(* the key, creating the item when it does not exist.                       *)
UpdateItem(tbl, key, id, upd) ==
    LET old == IF id \in DOMAIN tbl THEN tbl[id] ELSE (key :> id)
    IN  (id :> (upd @@ old)) @@ tbl

PutItem(tbl, id, item) == (id :> item) @@ tbl

DeleteItem(tbl, id) == [k \in DOMAIN tbl \ {id} |-> tbl[k]]

Restrict(f, S) == [k \in DOMAIN f \cap S |-> f[k]]

----------------------------------------------------------------------------
(* Request bodies *)

GameDate == "2024-05-01"

BaseGame == [homeTeamId |-> "T1", awayTeamId |-> "T2", gameDate |-> GameDate]

CreateGameBodies ==
    {BaseGame,
     [gameId |-> "g1"] @@ BaseGame,
     [awayTeamId |-> "T1"] @@ BaseGame,
     [homeTeamId |-> "T9"] @@ BaseGame,
     [awayTeamId |-> "T9"] @@ BaseGame,
     [homeTeamId |-> ""] @@ BaseGame,
     Restrict(BaseGame, {"homeTeamId", "gameDate"}),
     Restrict(BaseGame, {"homeTeamId", "awayTeamId"}),
     [status |-> "completed", currentPeriod |-> 4, homeScore |-> 1] @@ BaseGame}

UpdateGameBodies ==
    {[status |-> s] : s \in Statuses}
    \cup {[homeScore |-> n] : n \in 0..MaxScore}
    \cup {[awayScore |-> n] : n \in 0..MaxScore}
    \cup {[currentPeriod |-> MaxPeriod + 1], [currentPeriod |-> 1]}
    \cup {[currentGameTime |-> T500]}
    \cup {[homeTeamId |-> "T9"]}
    \cup {[awayTeamId |-> t] : t \in {"T1", "T9"}}
    \cup {[gameId |-> "g9"]}

(* a score in a request body, as its decimal text *)
DigitChars == <<"0", "1", "2", "3", "4", "5", "6", "7", "8", "9">>
ScoreText(n) == <<DigitChars[n + 1]>>
(* String(n) of an integer of one digit *)
NumberText(n) == IF n < 0 THEN <<"-", DigitChars[1 - n]>> ELSE <<DigitChars[n + 1]>>
ScoreInputs == {ScoreText(n) : n \in 0..MaxScore} \cup {<<"x">>}

UpdateScoreBodies ==
    {<<>>}
    \cup {[homeScore |-> h] : h \in ScoreInputs}
    \cup {[awayScore |-> a] : a \in ScoreInputs}
    \cup {[homeScore |-> ScoreText(n), awayScore |-> ScoreText(n)] : n \in 0..MaxScore}
    \cup {[homeScore |-> ScoreText(0), awayScore |-> <<"x">>]}

(* scores of any kind: digits, a negative number, no number at all *)
AnyScoreBodies ==
    {[homeScore |-> h] : h \in ScoreInputs \cup {<<"-", "1">>}}
    \cup {[awayScore |-> a] : a \in ScoreInputs \cup {<<"-", "1">>}}

TimeInputs == {<<"7", ":", "0", "5">>, <<"2", "0", ":", "6", "0">>, <<"1", "2", "3">>, <<>>}
UpdateTimeBodies == {<<>>} \cup {[currentGameTime |-> s] : s \in TimeInputs}

----------------------------------------------------------------------------
(* Pure helpers of the Games handler *)

DigitVal(c) == CHOOSE k \in 0..9 : DigitChars[k + 1] = c

(* parseInt(text, 10): optional sign, then the longest prefix of digits; *)
(* NaN when there is no digit.                                           *)
RECURSIVE DigitPrefix(_, _)
DigitPrefix(s, acc) ==
    IF Len(s) > 0 /\ s[1] \in Digits
    THEN DigitPrefix(Tail(s), acc * 10 + DigitVal(s[1]))
    ELSE acc

ParseInt(s) ==
    LET neg  == Len(s) > 0 /\ s[1] = "-"
        body == IF Len(s) > 0 /\ s[1] \in {"-", "+"} THEN Tail(s) ELSE s
    IN  IF Len(body) > 0 /\ body[1] \in Digits
        THEN [nan |-> FALSE, val |-> IF neg THEN 0 - DigitPrefix(body, 0) ELSE DigitPrefix(body, 0)]
        ELSE [nan |-> TRUE, val |-> 0]

(* /^([0-9]{1,2}):([0-5][0-9])$/.test(s) *)
TimeRegexTest(s) ==
    \E m \in 1..2 :
        /\ Len(s) = m + 3
        /\ \A i \in 1..m : s[i] \in Digits
        /\ s[m + 1] = ":"
        /\ s[m + 2] \in {"0", "1", "2", "3", "4", "5"}
        /\ s[m + 3] \in Digits

StatusOf(item) == IF Has(item, "status") THEN item.status ELSE "undefined"
TeamOf(item, attr) == IF Has(item, attr) THEN item[attr] ELSE "undefined"

----------------------------------------------------------------------------
(* The Games handler: for each operation, the response decided on the item *)
(* it read (Ok when it goes on to write) and the attributes that its       *)
(* UpdateCommand sets.                                                     *)

GameNotFound == Err(404, "Game not found")

GameDefaults ==
    [status |-> "scheduled", currentPeriod |-> 1, currentGameTime |-> T2000,
     homeScore |-> 0, awayScore |-> 0]

(* an item in which the values of the body win over the initial values *)
CreateGameItemBodyWins(id, body) == body @@ GameDefaults @@ [gameId |-> id]

(* { gameId, ...gameData, status: 'scheduled', ... } *)
CreateGameItem(id, body) == GameDefaults @@ body @@ [gameId |-> id]

(* createGame whose put carries no condition *)
CreateGameCheckNoCondition(tbl, id, item) ==
    IF ~Truthy(item, "homeTeamId") THEN Err(400, "Home team ID is required")
    ELSE IF ~Truthy(item, "awayTeamId") THEN Err(400, "Away team ID is required")
    ELSE IF ~Truthy(item, "gameDate") THEN Err(400, "Game date is required")
    ELSE IF item.homeTeamId \notin Teams \/ item.awayTeamId \notin Teams
         THEN Err(400, "Team not found")
    ELSE [code |-> 201, msg |-> "ok"]

CreateGameCheck(tbl, id, item) ==
    IF ~Truthy(item, "homeTeamId") THEN Err(400, "Home team ID is required")
    ELSE IF ~Truthy(item, "awayTeamId") THEN Err(400, "Away team ID is required")
    ELSE IF ~Truthy(item, "gameDate") THEN Err(400, "Game date is required")
    ELSE IF item.homeTeamId \notin Teams \/ item.awayTeamId \notin Teams
         THEN Err(400, "Team not found")
    ELSE IF id \in DOMAIN tbl THEN Err(409, "Game already exists")
    ELSE [code |-> 201, msg |-> "ok"]

GetGameCheck(tbl, g) == IF g \in DOMAIN tbl THEN Ok ELSE GameNotFound

UpdateGameCheck(tbl, g, body) ==
    IF g \notin DOMAIN tbl THEN GameNotFound
    ELSE IF /\ Truthy(body, "homeTeamId")
            /\ body.homeTeamId # TeamOf(tbl[g], "homeTeamId")
            /\ body.homeTeamId \notin Teams THEN Err(500, "Team not found")
    ELSE IF /\ Truthy(body, "awayTeamId")
            /\ body.awayTeamId # TeamOf(tbl[g], "awayTeamId")
            /\ body.awayTeamId \notin Teams THEN Err(500, "Team not found")
    ELSE Ok

(* buildUpdateExpression: every attribute of the body but the key *)
BuildUpdateExpression(body) == Restrict(body, DOMAIN body \ {"gameId"})

(* startGame that forgets the check of a completed game *)
StartGameCheckNoCompleted(tbl, g) ==
    IF g \notin DOMAIN tbl THEN GameNotFound
    ELSE IF StatusOf(tbl[g]) = "in_progress" THEN Err(400, "Game is already in progress")
    ELSE Ok

StartGameCheck(tbl, g) ==
    IF g \notin DOMAIN tbl THEN GameNotFound
    ELSE IF StatusOf(tbl[g]) = "in_progress" THEN Err(400, "Game is already in progress")
    ELSE IF StatusOf(tbl[g]) = "completed" THEN Err(400, "Cannot start a completed game")
    ELSE Ok

StartGameUpdate(t) == [status |-> "in_progress", startTime |-> t]

(* stopGame that refuses only a completed game *)
StopGameCheckOnlyCompleted(tbl, g) ==
    IF g \notin DOMAIN tbl THEN GameNotFound
    ELSE IF StatusOf(tbl[g]) = "completed"
         THEN Err(400, "Can only stop a game that is in progress")
    ELSE Ok

StopGameCheck(tbl, g) ==
    IF g \notin DOMAIN tbl THEN GameNotFound
    ELSE IF StatusOf(tbl[g]) # "in_progress"
         THEN Err(400, "Can only stop a game that is in progress")
    ELSE Ok

StopGameUpdate(t) == [status |-> "completed", endTime |-> t]

(* an update that sets both scores, a score the body leaves out to 0 *)
UpdateScoreUpdateBoth(body) ==
    [homeScore |-> IF Has(body, "homeScore") THEN ParseInt(body.homeScore).val ELSE 0,
     awayScore |-> IF Has(body, "awayScore") THEN ParseInt(body.awayScore).val ELSE 0]

UpdateScoreUpdate(body) ==
    (IF Has(body, "homeScore") THEN [homeScore |-> ParseInt(body.homeScore).val] ELSE <<>>)
    @@ (IF Has(body, "awayScore") THEN [awayScore |-> ParseInt(body.awayScore).val] ELSE <<>>)

(* a NaN value is refused by the document client before the request is sent *)
UpdateScoreCheck(tbl, g, body) ==
    IF g \notin DOMAIN tbl THEN GameNotFound
    ELSE IF StatusOf(tbl[g]) # "in_progress"
         THEN Err(400, "Can only update score for a game in progress")
    ELSE IF ~Has(body, "homeScore") /\ ~Has(body, "awayScore")
         THEN Err(400, "Either homeScore or awayScore must be provided")
    ELSE IF \/ Has(body, "homeScore") /\ ParseInt(body.homeScore).nan
            \/ Has(body, "awayScore") /\ ParseInt(body.awayScore).nan
         THEN Err(500, "Special numeric value NaN is not allowed")
    ELSE Ok

(* updateTime that validates the body before it looks at the status *)
UpdateTimeCheckBodyFirst(tbl, g, body) ==
    IF g \notin DOMAIN tbl THEN GameNotFound
    ELSE IF ~Has(body, "currentGameTime") \/ Len(body.currentGameTime) = 0
         THEN Err(400, "currentGameTime must be provided")
    ELSE IF ~TimeRegexTest(body.currentGameTime)
         THEN Err(400, "currentGameTime must be in MM:SS format")
    ELSE IF StatusOf(tbl[g]) # "in_progress"
         THEN Err(400, "Can only update time for a game in progress")
    ELSE Ok

UpdateTimeCheck(tbl, g, body) ==
    IF g \notin DOMAIN tbl THEN GameNotFound
    ELSE IF StatusOf(tbl[g]) # "in_progress"
         THEN Err(400, "Can only update time for a game in progress")
    ELSE IF ~Has(body, "currentGameTime") \/ Len(body.currentGameTime) = 0
         THEN Err(400, "currentGameTime must be provided")
    ELSE IF ~TimeRegexTest(body.currentGameTime)
         THEN Err(400, "currentGameTime must be in MM:SS format")
    ELSE Ok

UpdateTimeUpdate(body) == [currentGameTime |-> body.currentGameTime]

(* nextPeriod with > in place of >= *)
NextPeriodCheckOffByOne(tbl, g) ==
    IF g \notin DOMAIN tbl THEN GameNotFound
    ELSE IF StatusOf(tbl[g]) # "in_progress"
         THEN Err(400, "Can only change period for a game in progress")
    ELSE IF tbl[g].currentPeriod > MaxPeriod THEN Err(400, "Already at maximum period")
    ELSE Ok

NextPeriodCheck(tbl, g) ==
    IF g \notin DOMAIN tbl THEN GameNotFound
    ELSE IF StatusOf(tbl[g]) # "in_progress"
         THEN Err(400, "Can only change period for a game in progress")
    ELSE IF tbl[g].currentPeriod >= MaxPeriod THEN Err(400, "Already at maximum period")
    ELSE Ok

(* the overtime clock given from period 3 on *)
PeriodTimeEarlyOvertime(nextPeriod) == IF nextPeriod < LastRegulationPeriod THEN T2000 ELSE T500

PeriodTime(nextPeriod) == IF nextPeriod <= LastRegulationPeriod THEN T2000 ELSE T500

(* currentPeriod is the period that the request read *)
NextPeriodUpdate(currentPeriod) ==
    [currentPeriod |-> currentPeriod + 1, currentGameTime |-> PeriodTime(currentPeriod + 1)]

----------------------------------------------------------------------------
(* The Events handler: createEvent *)

CreateEventBodies ==
    {e @@ g @@ ty @@ tm @@ pl :
        e  \in {<<>>, [eventId |-> "e1"]},
        g  \in {<<>>} \cup {[gameId |-> id] : id \in GameIds},
        ty \in {<<>>, [eventType |-> "GOAL"], [eventType |-> "PENALTY"]},
        tm \in {<<>>} \cup {[teamId |-> t] : t \in Teams \cup {"T9"}},
        pl \in {<<>>} \cup {[playerId |-> q] : q \in Players \cup {"P9"}}}

(* createEvent that does not look at the status of the game *)
CreateEventCheckNoStatus(tbl, body) ==
    IF ~Truthy(body, "gameId") THEN Err(400, "Game ID is required")
    ELSE IF ~Truthy(body, "eventType") THEN Err(400, "Event type is required")
    ELSE IF body.gameId \notin DOMAIN tbl THEN Err(400, "Game not found")
    ELSE IF body.eventType = "GOAL" /\ ~Truthy(body, "teamId")
         THEN Err(400, "Team ID is required for goal events")
    ELSE IF /\ body.eventType = "GOAL"
            /\ body.teamId # TeamOf(tbl[body.gameId], "homeTeamId")
            /\ body.teamId # TeamOf(tbl[body.gameId], "awayTeamId")
         THEN Err(400, "Invalid team ID for this game")
    ELSE Ok

(* createEvent that accepts a GOAL for a team that plays on neither side *)
CreateEventCheckAnyTeam(tbl, body) ==
    IF ~Truthy(body, "gameId") THEN Err(400, "Game ID is required")
    ELSE IF ~Truthy(body, "eventType") THEN Err(400, "Event type is required")
    ELSE IF body.gameId \notin DOMAIN tbl THEN Err(400, "Game not found")
    ELSE IF StatusOf(tbl[body.gameId]) # "in_progress"
         THEN Err(400, "Events can only be created for games in progress")
    ELSE IF body.eventType = "GOAL" /\ ~Truthy(body, "teamId")
         THEN Err(400, "Team ID is required for goal events")
    ELSE Ok

(* the checks made before anything is written *)
CreateEventCheck(tbl, body) ==
    IF ~Truthy(body, "gameId") THEN Err(400, "Game ID is required")
    ELSE IF ~Truthy(body, "eventType") THEN Err(400, "Event type is required")
    ELSE IF body.gameId \notin DOMAIN tbl THEN Err(400, "Game not found")
    ELSE IF StatusOf(tbl[body.gameId]) # "in_progress"
         THEN Err(400, "Events can only be created for games in progress")
    ELSE IF body.eventType = "GOAL" /\ ~Truthy(body, "teamId")
         THEN Err(400, "Team ID is required for goal events")
    ELSE IF /\ body.eventType = "GOAL"
            /\ body.teamId # TeamOf(tbl[body.gameId], "homeTeamId")
            /\ body.teamId # TeamOf(tbl[body.gameId], "awayTeamId")
         THEN Err(400, "Invalid team ID for this game")
    ELSE Ok

(* the two sides tested by two independent ifs *)
GoalScoresBothSides(game, teamId) ==
    LET homeScoreChange == IF teamId = game.homeTeamId THEN 1 ELSE 0
        awayScoreChange == IF teamId = game.awayTeamId THEN 1 ELSE 0
    IN  [homeScore |-> game.homeScore + homeScoreChange,
         awayScore |-> game.awayScore + awayScoreChange]

(* the scores a GOAL event for teamId makes of the scores of the game read *)
GoalScores(game, teamId) ==
    LET homeScoreChange == IF teamId = game.homeTeamId THEN 1 ELSE 0
        awayScoreChange == IF teamId # game.homeTeamId /\ teamId = game.awayTeamId THEN 1 ELSE 0
    IN  [homeScore |-> game.homeScore + homeScoreChange,
         awayScore |-> game.awayScore + awayScoreChange]

(* an event that starts from a clean score sheet unless it is a goal *)
EventScoresNoSnapshot(game, body) ==
    IF body.eventType = "GOAL"
    THEN GoalScores(game, body.teamId)
    ELSE [homeScore |-> 0, awayScore |-> 0]

(* the scores snapshotted onto the event *)
EventScores(game, body) ==
    IF body.eventType = "GOAL"
    THEN GoalScores(game, body.teamId)
    ELSE [homeScore |-> game.homeScore, awayScore |-> game.awayScore]

(* updateGameScore: SET homeScore, awayScore on the game's key *)
UpdateGameScore(tbl, gameId, scores) == UpdateItem(tbl, "gameId", gameId, scores)

(* teamId of the event: the caller's, else the player's *)
EventTeam(body) ==
    IF Truthy(body, "teamId") THEN [teamId |-> body.teamId]
    ELSE IF Truthy(body, "playerId") /\ body.playerId \in Players
         THEN [teamId |-> PlayerTeam(body.playerId)]
    ELSE <<>>

(* the player and team lookups, made after the score was written *)
CreateEventLookups(body) ==
    IF Truthy(body, "playerId") /\ body.playerId \notin Players
    THEN Err(400, "Player not found")
    ELSE IF Has(EventTeam(body), "teamId") /\ EventTeam(body).teamId \notin Teams
         THEN Err(400, "Team not found")
    ELSE Ok

CreateEventItem(id, body, game) ==
    EventScores(game, body) @@ EventTeam(body) @@ body @@ [eventId |-> id]

(* PutCommand with attribute_not_exists(eventId) *)
PutEventCheck(tbl, id) ==
    IF id \in DOMAIN tbl THEN Err(409, "Event already exists") ELSE [code |-> 201, msg |-> "ok"]

----------------------------------------------------------------------------
(* Text generation of the Events handler.  A text is a sequence of pieces: *)
(* the braces and the dollar sign are pieces of their own, a variable name *)
(* or a run of other characters is one piece.                              *)

TemplateIds == {"ta", "tb"}
Categories == {"c1", "c2"}

(* String.prototype.toLowerCase on the event types in use *)
ToLowerCase(str) ==
    CASE str = "GOAL" -> "goal"
      [] str = "PENALTY" -> "penalty"
      [] OTHER -> str

(* the source of the regular expression built for a key: {{key}} *)
Placeholder(key) == <<"{", "{", key, "}", "}">>

MatchAt(text, pat) == Len(pat) <= Len(text) /\ SubSeq(text, 1, Len(pat)) = pat

(* the replacement text of String.prototype.replace: $$ gives a dollar     *)
(* sign and $& the matched text                                            *)
RECURSIVE Expand(_, _)
Expand(value, matched) ==
    IF value = <<>> THEN <<>>
    ELSE IF Len(value) >= 2 /\ value[1] = "$" /\ value[2] = "$"
         THEN <<"$">> \o Expand(SubSeq(value, 3, Len(value)), matched)
    ELSE IF Len(value) >= 2 /\ value[1] = "$" /\ value[2] = "&"
         THEN matched \o Expand(SubSeq(value, 3, Len(value)), matched)
    ELSE <<Head(value)>> \o Expand(Tail(value), matched)

(* text.replace(regex, value) with the g flag: every match, left to right *)
RECURSIVE ReplaceAll(_, _, _)
ReplaceAll(text, pat, value) ==
    IF text = <<>> THEN <<>>
    ELSE IF MatchAt(text, pat)
         THEN Expand(value, pat) \o ReplaceAll(SubSeq(text, Len(pat) + 1, Len(text)), pat, value)
    ELSE <<Head(text)>> \o ReplaceAll(Tail(text), pat, value)

(* fillTemplate: one replace per entry of variables, in the order of the   *)
(* entries, each on the text the previous one left; variables is the       *)
(* sequence of the <<key, value>> entries of the object                    *)
RECURSIVE FillTemplate(_, _)
FillTemplate(templateText, variables) ==
    IF variables = <<>> THEN templateText
    ELSE FillTemplate(ReplaceAll(templateText, Placeholder(variables[1][1]), variables[1][2]),
                      Tail(variables))

(* a status that calls a level score a lead *)
DetermineScoreStatusNoTie(homeScore, awayScore) ==
    IF homeScore >= awayScore THEN "lead"
    ELSE "trail"

DetermineScoreStatus(homeScore, awayScore) ==
    IF homeScore > awayScore THEN "lead"
    ELSE IF homeScore < awayScore THEN "trail"
    ELSE "tied"

(* the templateVariables object of generateTextForEvent; the entries whose *)
(* values come from attributes that are not represented are left out       *)
TemplateVariables(event, game) ==
    LET homeScore == IF Has(event, "homeScore") THEN event.homeScore
                     ELSE IF Has(game, "homeScore") THEN game.homeScore ELSE 0
        awayScore == IF Has(event, "awayScore") THEN event.awayScore
                     ELSE IF Has(game, "awayScore") THEN game.awayScore ELSE 0
    IN  << <<"homeScore", NumberText(homeScore)>>,
           <<"awayScore", NumberText(awayScore)>>,
           <<"scoreStatus", <<DetermineScoreStatus(homeScore, awayScore)>> >> >>

IsDefault(template) == Has(template, "isDefault") /\ template.isDefault = TRUE

(* the orders in which a QueryCommand on an index without sort key can     *)
(* return the items whose attribute attr is value                          *)
QueryOrders(tbl, attr, value) ==
    LET hits == {k \in DOMAIN tbl : Has(tbl[k], attr) /\ tbl[k][attr] = value}
    IN  {o \in [1..Cardinality(hits) -> hits] : \A i, j \in DOMAIN o : o[i] = o[j] => i = j}

(* resolution that takes the first item of the query *)
GetFirstTemplateForEventType(tbl, items) ==
    IF Len(items) = 0 THEN "" ELSE items[1]

(* getDefaultTemplateForEventType on the items the query returned: the id  *)
(* of the template, "" for null                                            *)
GetDefaultTemplateForEventType(tbl, items) ==
    IF Len(items) = 0 THEN ""
    ELSE LET defaults == {i \in 1..Len(items) : IsDefault(tbl[items[i]])}
         IN  IF defaults # {}
             THEN items[CHOOSE i \in defaults : \A j \in defaults : i <= j]
             ELSE items[1]

(* generateTextForEvent(eventId, templateId, eventData): items is what the *)
(* query on EventTypeIndex returns when it is made                         *)
GenerateTextForEvent(evs, gms, tpls, eventId, templateId, eventData, items) ==
    IF eventId # "" /\ eventId \notin DOMAIN evs THEN [res |-> Err(404, "Event not found")]
    ELSE LET event == IF eventId # "" THEN evs[eventId] ELSE eventData
         IN  IF Truthy(event, "gameId") /\ event.gameId \notin DOMAIN gms
             THEN [res |-> Err(500, "Game not found")]
             ELSE IF templateId # "" /\ templateId \notin DOMAIN tpls
             THEN [res |-> Err(500, "Template not found")]
             ELSE IF templateId = "" /\ ~Has(event, "eventType")
             THEN [res |-> Err(500, "TypeError")]
             ELSE LET game == IF Truthy(event, "gameId") THEN gms[event.gameId] ELSE <<>>
                      id   == IF templateId # "" THEN templateId
                              ELSE GetDefaultTemplateForEventType(tpls, items)
                  IN  IF id = "" THEN [res |-> Err(500, "No template found for event type")]
                      ELSE IF ~Has(tpls[id], "text") THEN [res |-> Err(500, "TypeError")]
                      ELSE [res |-> Ok,
                            text |-> FillTemplate(tpls[id].text, TemplateVariables(event, game)),
                            templateId |-> id]

(* createEvent that attaches a text whether or not one was generated *)
WithGeneratedTextAlways(newEvent, gen) ==
    IF gen.res.msg = "ok"
    THEN [generatedText |-> gen.text, templateId |-> gen.templateId] @@ newEvent
    ELSE [generatedText |-> <<>>, templateId |-> ""] @@ newEvent

(* the try/catch around the generation in createEvent: the text and the    *)
(* template id are attached when there are any                             *)
WithGeneratedText(newEvent, gen) ==
    IF gen.res.msg = "ok"
    THEN [generatedText |-> gen.text, templateId |-> gen.templateId] @@ newEvent
    ELSE newEvent

(* the items of the query generateTextForEvent makes for the event *)
EventTypeOrders(tpls, event) ==
    IF Has(event, "eventType")
    THEN QueryOrders(tpls, "eventType", ToLowerCase(event.eventType))
    ELSE {<<>>}

(* the var_ entries of a manual event, merged into templateVariables: an   *)
(* entry for a key the object has keeps the place of the key, the entry    *)
(* for x comes last                                                        *)
WithCustomVariables(variables, eventData) ==
    [i \in 1..Len(variables) |->
        IF Has(eventData, "var_" \o variables[i][1])
        THEN <<variables[i][1], eventData["var_" \o variables[i][1]]>>
        ELSE variables[i]]
    \o (IF Has(eventData, "var_x") THEN << <<"x", eventData.var_x>> >> ELSE <<>>)

(* generateTextForManualEvent(eventData) *)
GenerateTextForManualEvent(gms, tpls, eventData) ==
    IF ~Truthy(eventData, "templateId") THEN [res |-> Err(500, "Template ID is required")]
    ELSE IF eventData.templateId \notin DOMAIN tpls THEN [res |-> Err(500, "Template not found")]
    ELSE IF Truthy(eventData, "gameId") /\ eventData.gameId \notin DOMAIN gms
         THEN [res |-> Err(500, "Game not found")]
    ELSE LET game     == IF Truthy(eventData, "gameId") THEN gms[eventData.gameId] ELSE <<>>
             template == tpls[eventData.templateId]
         IN  IF ~Has(template, "text") THEN [res |-> Err(500, "TypeError")]
             ELSE [res |-> Ok,
                   text |-> FillTemplate(template.text,
                                WithCustomVariables(TemplateVariables(eventData, game), eventData)),
                   templateId |-> eventData.templateId]

(* a request to the Events handler: the method, the eventId and the action *)
(* of the path ("" when the path has none) and the parsed body             *)
EventsRequest(httpMethod, eventId, action, body) ==
    [httpMethod |-> httpMethod, eventId |-> eventId, action |-> action, body |-> body]

(* a handler that routes on the method and the eventId alone *)
EventsRouteIgnoringAction(req) ==
    IF req.httpMethod = "POST" THEN "createEvent"
    ELSE IF req.httpMethod = "PUT"
         THEN IF req.eventId = "" THEN "error: Event ID is required for updates"
              ELSE "updateEvent"
    ELSE IF req.httpMethod = "DELETE"
         THEN IF req.eventId = "" THEN "error: Event ID is required for deletion"
              ELSE "deleteEvent"
    ELSE "error: Unsupported method"

(* the switch of the handler: the operation a request is routed to *)
EventsRoute(req) ==
    IF req.httpMethod = "POST"
    THEN IF req.action = "generate-text"
         THEN IF ~Truthy(req.body, "eventId") /\ ~Truthy(req.body, "templateId")
              THEN "error: Either eventId or manual event details with templateId are required"
              ELSE IF Truthy(req.body, "eventId") THEN "generateTextForEvent"
              ELSE "generateTextForManualEvent"
         ELSE "createEvent"
    ELSE IF req.httpMethod = "PUT"
         THEN IF req.eventId = "" THEN "error: Event ID is required for updates"
              ELSE IF req.action = "generate-text" THEN "generateTextForEvent"
              ELSE "updateEvent"
    ELSE IF req.httpMethod = "DELETE"
         THEN IF req.eventId = "" THEN "error: Event ID is required for deletion"
              ELSE "deleteEvent"
    ELSE "error: Unsupported method"

GetEventCheck(tbl, eventId) ==
    IF eventId \notin DOMAIN tbl THEN Err(404, "Event not found") ELSE Ok

(* buildUpdateExpression of the Events handler: every attribute but the key *)
BuildEventUpdateExpression(body) == Restrict(body, DOMAIN body \ {"eventId"})

----------------------------------------------------------------------------
(* The Templates handler *)

Created == [code |-> 201, msg |-> "ok"]
NoContent == [code |-> 204, msg |-> "ok"]

(* setDefaultTemplate that clears the others and leaves the named one *)
SetDefaultUpdateClearOnly(item, templateId) ==
    IF item = templateId THEN <<>> ELSE [isDefault |-> FALSE]

(* the update setDefaultTemplate(templateId) sends for an item of the query *)
SetDefaultUpdate(item, templateId) == [isDefault |-> (item = templateId)]

(* the updates of setDefaultTemplate, applied in the order of items *)
RECURSIVE SetDefaultUpdates(_, _, _)
SetDefaultUpdates(tbl, items, templateId) ==
    IF items = <<>> THEN tbl
    ELSE SetDefaultUpdates(
             UpdateItem(tbl, "templateId", Head(items), SetDefaultUpdate(Head(items), templateId)),
             Tail(items), templateId)

(* the GetCommand of setDefaultTemplate and the value it takes for the     *)
(* query: a template without categoryId makes the query fail               *)
SetDefaultCheck(tbl, templateId) ==
    IF templateId \notin DOMAIN tbl THEN Err(404, "Template not found")
    ELSE IF ~Has(tbl[templateId], "categoryId") THEN Err(500, "Internal Server Error")
    ELSE Ok

----------------------------------------------------------------------------
(* Bookkeeping shared by the actions *)

Idle == [pc |-> "idle"]
(* the answer of a step that is not the last of its request *)
Pending == [code |-> 0, msg |-> "pending"]

(* the step just taken: the operation, the game it names, its response and *)
(* its own datum (the timestamp of a start or stop that wrote, the id of   *)
(* the event of a createEvent); and the tables as they were before it      *)
Respond(op, id, res, arg) ==
    /\ last' = [op |-> op, id |-> id, res |-> res, arg |-> arg]
    /\ prev' = games
    /\ prevEvents' = events
    /\ prevTemplates' = templates

(* run[g]: 0 after createGame; 1 after a startGame that directly follows;  *)
(* 1 + k after k next-period calls that directly follow; -1 otherwise.     *)
ScenarioCalls == 5

RunAfter(op, g, res) ==
    IF g \notin GameIds THEN run
    ELSE [run EXCEPT ![g] =
            IF op = "createGame" /\ res.msg = "ok" THEN 0
            ELSE IF op = "startGame" /\ res.msg = "ok" /\ run[g] = 0 THEN 1
            ELSE IF op = "nextPeriod" /\ run[g] >= 1 /\ run[g] <= ScenarioCalls THEN run[g] + 1
            ELSE IF op = "createGame" THEN run[g]
            ELSE -1]

----------------------------------------------------------------------------
(* Each request served alone: one action per handler operation *)

CreateGame(body) ==
    \E id \in GameIds :
        /\ IF Truthy(body, "gameId") THEN id = body.gameId ELSE id \notin DOMAIN games
        /\ LET item == CreateGameItem(id, body)
               res  == CreateGameCheck(games, id, item)
           IN  /\ games' = IF res.msg = "ok" THEN PutItem(games, id, item) ELSE games
               /\ Respond("createGame", id, res, "")
               /\ run' = RunAfter("createGame", id, res)
        /\ UNCHANGED <<events, templates, reqs>>

UpdateGame(g, body) ==
    LET res == UpdateGameCheck(games, g, body)
    IN  /\ games' = IF res.msg = "ok"
                    THEN UpdateItem(games, "gameId", g, BuildUpdateExpression(body))
                    ELSE games
        /\ Respond("updateGame", g, res, "")
        /\ run' = RunAfter("updateGame", g, res)
        /\ UNCHANGED <<events, templates, reqs>>

DeleteGame(g) ==
    LET res == GetGameCheck(games, g)
    IN  /\ games' = IF res.msg = "ok" THEN DeleteItem(games, g) ELSE games
        /\ Respond("deleteGame", g, res, "")
        /\ run' = RunAfter("deleteGame", g, res)
        /\ UNCHANGED <<events, templates, reqs>>

StartGame(g, t) ==
    LET res == StartGameCheck(games, g)
    IN  /\ games' = IF res.msg = "ok"
                    THEN UpdateItem(games, "gameId", g, StartGameUpdate(t))
                    ELSE games
        /\ Respond("startGame", g, res, IF res.msg = "ok" THEN t ELSE "")
        /\ run' = RunAfter("startGame", g, res)
        /\ UNCHANGED <<events, templates, reqs>>

StopGame(g, t) ==
    LET res == StopGameCheck(games, g)
    IN  /\ games' = IF res.msg = "ok"
                    THEN UpdateItem(games, "gameId", g, StopGameUpdate(t))
                    ELSE games
        /\ Respond("stopGame", g, res, IF res.msg = "ok" THEN t ELSE "")
        /\ run' = RunAfter("stopGame", g, res)
        /\ UNCHANGED <<events, templates, reqs>>

UpdateScore(g, body) ==
    LET res == UpdateScoreCheck(games, g, body)
    IN  /\ games' = IF res.msg = "ok"
                    THEN UpdateItem(games, "gameId", g, UpdateScoreUpdate(body))
                    ELSE games
        /\ Respond("updateScore", g, res, "")
        /\ run' = RunAfter("updateScore", g, res)
        /\ UNCHANGED <<events, templates, reqs>>

UpdateTime(g, body) ==
    LET res == UpdateTimeCheck(games, g, body)
    IN  /\ games' = IF res.msg = "ok"
                    THEN UpdateItem(games, "gameId", g, UpdateTimeUpdate(body))
                    ELSE games
        /\ Respond("updateTime", g, res, "")
        /\ run' = RunAfter("updateTime", g, res)
        /\ UNCHANGED <<events, templates, reqs>>

NextPeriod(g) ==
    LET res == NextPeriodCheck(games, g)
    IN  /\ games' = IF res.msg = "ok"
                    THEN UpdateItem(games, "gameId", g, NextPeriodUpdate(games[g].currentPeriod))
                    ELSE games
        /\ Respond("nextPeriod", g, res, "")
        /\ run' = RunAfter("nextPeriod", g, res)
        /\ UNCHANGED <<events, templates, reqs>>

(* pool: the ids that uuidv4() can give *)
CreateEvent(body, pool) ==
    \E id \in pool :
        /\ IF Truthy(body, "eventId") THEN id = body.eventId ELSE id \notin DOMAIN events
        /\ LET chk == CreateEventCheck(games, body)
               gid == IF Has(body, "gameId") THEN body.gameId ELSE ""
           IN  IF chk.msg # "ok"
               THEN /\ UNCHANGED <<games, events>>
                    /\ Respond("createEvent", gid, chk, id)
               ELSE LET game   == games[body.gameId]
                        scores == EventScores(game, body)
                        look   == CreateEventLookups(body)
                        res    == IF look.msg # "ok" THEN look ELSE PutEventCheck(events, id)
                        scored == IF body.eventType = "GOAL"
                                  THEN UpdateGameScore(games, game.gameId, scores)
                                  ELSE games
                        newEvent == CreateEventItem(id, body, game)
                    IN  /\ scores.homeScore <= MaxScore /\ scores.awayScore <= MaxScore
                        /\ games' = scored
                        /\ \E items \in EventTypeOrders(templates, newEvent) :
                             LET gen == GenerateTextForEvent(events, scored, templates,
                                                             "", "", newEvent, items)
                             IN  events' = IF res.msg = "ok"
                                           THEN PutItem(events, id, WithGeneratedText(newEvent, gen))
                                           ELSE events
                        /\ Respond("createEvent", gid, res, id)
        /\ run' = IF Has(body, "gameId") THEN RunAfter("createEvent", body.gameId, Ok) ELSE run
        /\ UNCHANGED <<templates, reqs>>

UpdateEvent(eventId, body) ==
    LET res == GetEventCheck(events, eventId)
    IN  /\ events' = IF res.msg = "ok"
                     THEN UpdateItem(events, "eventId", eventId, BuildEventUpdateExpression(body))
                     ELSE events
        /\ Respond("updateEvent", eventId, res, "")
        /\ UNCHANGED <<games, templates, run, reqs>>

DeleteEvent(eventId) ==
    LET res == GetEventCheck(events, eventId)
    IN  /\ events' = IF res.msg = "ok" THEN DeleteItem(events, eventId) ELSE events
        /\ Respond("deleteEvent", eventId, res, "")
        /\ UNCHANGED <<games, templates, run, reqs>>

(* the generate-text action on a stored event (eventId and templateId of   *)
(* the path or the body) or on a manual event (the body)                   *)
GenerateText(req) ==
    LET op         == EventsRoute(req)
        eventId    == IF req.httpMethod = "PUT" THEN req.eventId ELSE req.body.eventId
        templateId == IF Truthy(req.body, "templateId") THEN req.body.templateId ELSE ""
        queries    == IF op = "generateTextForEvent" /\ templateId = "" /\ eventId \in DOMAIN events
                      THEN EventTypeOrders(templates, events[eventId])
                      ELSE {<<>>}
    IN  \E items \in queries :
            LET gen == IF op = "generateTextForEvent"
                       THEN GenerateTextForEvent(events, games, templates,
                                                 eventId, templateId, <<>>, items)
                       ELSE GenerateTextForManualEvent(games, templates, req.body)
            IN  /\ Respond(op, IF op = "generateTextForEvent" THEN eventId ELSE "", gen.res,
                           [req |-> req, items |-> items, out |-> gen])
                /\ UNCHANGED <<games, events, templates, run, reqs>>

(* the Events handler on one request *)
EventsHandler(req, pool) ==
    LET op == EventsRoute(req)
    IN  CASE op = "createEvent" -> CreateEvent(req.body, pool)
          [] op \in {"generateTextForEvent", "generateTextForManualEvent"} -> GenerateText(req)
          [] op = "updateEvent" -> UpdateEvent(req.eventId, req.body)
          [] op = "deleteEvent" -> DeleteEvent(req.eventId)
          [] OTHER -> /\ Respond("handler", "", Err(500, op), "")
                      /\ UNCHANGED <<games, events, templates, run, reqs>>

(* pool: the ids that `${categoryId}-${Date.now()}` can give *)
CreateTemplate(body, pool) ==
    \E id \in pool :
        /\ IF Truthy(body, "templateId") THEN id = body.templateId ELSE id \notin DOMAIN templates
        /\ templates' = PutItem(templates, id, [templateId |-> id] @@ body)
        /\ Respond("createTemplate", id, Created, "")
        /\ UNCHANGED <<games, events, run, reqs>>

UpdateTemplate(templateId, updates) ==
    /\ templates' = UpdateItem(templates, "templateId", templateId, updates)
    /\ Respond("updateTemplate", templateId, Ok, "")
    /\ UNCHANGED <<games, events, run, reqs>>

DeleteTemplate(templateId) ==
    /\ templates' = DeleteItem(templates, templateId)
    /\ Respond("deleteTemplate", templateId, NoContent, "")
    /\ UNCHANGED <<games, events, run, reqs>>

(* setDefaultTemplate with no other request between its steps *)
SetDefaultTemplate(templateId) ==
    LET res == SetDefaultCheck(templates, templateId)
    IN  /\ IF res.msg = "ok"
           THEN \E items \in QueryOrders(templates, "categoryId", templates[templateId].categoryId) :
                    templates' = SetDefaultUpdates(templates, items, templateId)
           ELSE templates' = templates
        /\ Respond("setDefaultTemplate", templateId, res, "")
        /\ UNCHANGED <<games, events, run, reqs>>

----------------------------------------------------------------------------
(* The Games handler, one request at a time *)

Init ==
    /\ games = <<>>
    /\ events = <<>>
    /\ templates = <<>>
    /\ last = [op |-> "init", id |-> "", res |-> Ok, arg |-> ""]
    /\ prev = <<>>
    /\ prevEvents = <<>>
    /\ prevTemplates = <<>>
    /\ run = [g \in GameIds |-> -1]
    /\ reqs = [s \in Slots |-> Idle]

Next ==
    \/ \E body \in CreateGameBodies : CreateGame(body)
    \/ \E g \in GameIds, body \in UpdateGameBodies : UpdateGame(g, body)
    \/ \E g \in GameIds : DeleteGame(g)
    \/ \E g \in GameIds, t \in Times : StartGame(g, t)
    \/ \E g \in GameIds, t \in Times : StopGame(g, t)
    \/ \E g \in GameIds, body \in UpdateScoreBodies : UpdateScore(g, body)
    \/ \E g \in GameIds, body \in UpdateTimeBodies : UpdateTime(g, body)
    \/ \E g \in GameIds : NextPeriod(g)

Spec == Init /\ [][Next]_vars

----------------------------------------------------------------------------
(* The Events handler over the games that the Games handler makes, one     *)
(* request at a time                                                       *)

EventGameBodies == {[gameId |-> "g1"] @@ BaseGame, [gameId |-> "g1", awayTeamId |-> "T1"] @@ BaseGame}

NextEvents ==
    \/ \E body \in EventGameBodies : CreateGame(body)
    \/ \E g \in GameIds : StartGame(g, "t1")
    \/ \E g \in GameIds : StopGame(g, "t1")
    \/ \E g \in GameIds : UpdateGame(g, [status |-> "cancelled"])
    \/ \E g \in GameIds : DeleteGame(g)
    \/ \E body \in CreateEventBodies : CreateEvent(body, {"e1"})

SpecEvents == Init /\ [][NextEvents]_vars

----------------------------------------------------------------------------
(* The Events handler with templates in the store: createEvent with its    *)
(* text generation and the generate-text action, one request at a time     *)

TextScore == Placeholder("homeScore") \o <<"-">> \o Placeholder("awayScore")

TextTemplateBodies ==
    {[templateId |-> id, categoryId |-> "c1", eventType |-> ty, text |-> TextScore] @@ d :
        id \in TemplateIds, ty \in {"goal", "GOAL"}, d \in {<<>>, [isDefault |-> TRUE]}}
    \cup {[templateId |-> "ta", categoryId |-> "c1", eventType |-> "goal"]}

TextEventBodies ==
    {[gameId |-> "g1", eventType |-> "GOAL", teamId |-> "T1"],
     [gameId |-> "g1", eventType |-> "PENALTY"],
     [gameId |-> "g1", eventType |-> "GOAL", teamId |-> "T2", templateId |-> "tz"],
     [eventId |-> "e1", gameId |-> "g1", eventType |-> "GOAL", teamId |-> "T2"]}

GenerateTextRequests ==
    {EventsRequest("POST", "", "generate-text", body) :
        body \in {<<>>, [eventId |-> "e1"], [eventId |-> "e1", templateId |-> "ta"],
                  [eventId |-> "e1", templateId |-> "tz"], [eventId |-> "e9"],
                  [templateId |-> "tb"], [templateId |-> "tz"],
                  [templateId |-> "tb", gameId |-> "g1"]}}
    \cup {EventsRequest("PUT", "e1", "generate-text", body) : body \in {<<>>, [templateId |-> "ta"]}}

(* POST /events?action=generate-text: the action is in the query string   *)
(* of the request and its path has none                                    *)
QueryActionRequests ==
    {[queryStringParameters |-> [action |-> "generate-text"]] @@ EventsRequest("POST", "", "", body) :
        body \in {[eventId |-> "e1"],
                  [gameId |-> "g1", eventType |-> "GOAL", teamId |-> "T2", templateId |-> "tz"]}}

TextRequests ==
    {EventsRequest("POST", "", "", body) : body \in TextEventBodies}
    \cup GenerateTextRequests
    \cup QueryActionRequests
    \cup {EventsRequest("PUT", "e1", "", [templateId |-> "tb"]),
          EventsRequest("PUT", "", "", <<>>),
          EventsRequest("DELETE", "e1", "", <<>>)}

NextText ==
    \/ CreateGame([gameId |-> "g1"] @@ BaseGame)
    \/ \E g \in GameIds : StartGame(g, "t1")
    \/ \E body \in TextTemplateBodies : CreateTemplate(body, TemplateIds)
    \/ \E req \in TextRequests : EventsHandler(req, {"e1"})

SpecText == Init /\ [][NextText]_vars

----------------------------------------------------------------------------
(* fillTemplate on its own: a text and a variables object are drawn, then  *)
(* the function is applied                                                 *)

MaxSegments == 2

FillSegments == {Placeholder("playerName"), Placeholder("x"), <<" scores!">>}

RECURSIVE FillTexts(_)
FillTexts(n) ==
    IF n = 0 THEN {<<>>}
    ELSE FillTexts(n - 1) \cup {t \o seg : t \in FillTexts(n - 1), seg \in FillSegments}

FillValues == {<<"Smith">>, <<"$", "&">>, <<"$", "$">>, Placeholder("x")}

(* the entries of the object, playerName before x *)
FillVariables ==
    {p \o x : p \in {<<>>} \cup {<< <<"playerName", v>> >> : v \in FillValues},
              x \in {<<>>} \cup {<< <<"x", v>> >> : v \in FillValues}}

InitFill ==
    /\ games = <<>>
    /\ events = <<>>
    /\ templates = <<>>
    /\ prev = <<>>
    /\ prevEvents = <<>>
    /\ prevTemplates = <<>>
    /\ run = [g \in GameIds |-> -1]
    /\ reqs = [s \in Slots |-> Idle]
    /\ \E templateText \in FillTexts(MaxSegments), variables \in FillVariables :
           last = [op |-> "input", id |-> "", res |-> Ok,
                   arg |-> [templateText |-> templateText, variables |-> variables]]

FillTemplateCall ==
    /\ last.op = "input"
    /\ last' = [op |-> "fillTemplate", id |-> "", res |-> Ok,
                arg |-> [templateText |-> last.arg.templateText,
                         variables |-> last.arg.variables,
                         text |-> FillTemplate(last.arg.templateText, last.arg.variables)]]
    /\ UNCHANGED <<games, events, templates, prev, prevEvents, prevTemplates, run, reqs>>

NextFill == FillTemplateCall

SpecFill == InitFill /\ [][NextFill]_vars

----------------------------------------------------------------------------
(* The writers of the scores: updateScore with scores of any kind and      *)
(* createEvent with a GOAL, on a game that was created and started         *)

NextScores ==
    \/ CreateGame([gameId |-> "g1"] @@ BaseGame)
    \/ \E g \in GameIds : StartGame(g, "t1")
    \/ \E g \in GameIds, body \in AnyScoreBodies : UpdateScore(g, body)
    \/ \E t \in Teams :
           CreateEvent([gameId |-> "g1", eventType |-> "GOAL", teamId |-> t], EventIds)

SpecScores == Init /\ [][NextScores]_vars

----------------------------------------------------------------------------
(* The substitution context of generateTextForEvent and of                 *)
(* generateTextForManualEvent, as a function of the event (or the request  *)
(* body) and of the game                                                   *)

MaxGap == 2
ContextScores == (0 - MaxGap)..MaxGap

(* the event or the request body: each score is absent or an integer, and  *)
(* a request body may carry the custom variable var_homeScore              *)
ContextEvents ==
    {h @@ a @@ v :
        h \in {<<>>} \cup {[homeScore |-> n] : n \in ContextScores},
        a \in {<<>>} \cup {[awayScore |-> n] : n \in ContextScores},
        v \in {<<>>, [var_homeScore |-> NumberText(MaxGap)]}}

ContextGames == {<<>>, [homeScore |-> 1, awayScore |-> 0], [homeScore |-> 0, awayScore |-> 1]}

InitContext ==
    /\ games = <<>>
    /\ events = <<>>
    /\ templates = <<>>
    /\ prev = <<>>
    /\ prevEvents = <<>>
    /\ prevTemplates = <<>>
    /\ run = [g \in GameIds |-> -1]
    /\ reqs = [s \in Slots |-> Idle]
    /\ \E event \in ContextEvents, game \in ContextGames :
           last = [op |-> "input", id |-> "", res |-> Ok,
                   arg |-> [event |-> event, game |-> game]]

EventContext ==
    /\ last.op = "input"
    /\ last' = [op |-> "generateTextForEvent", id |-> "", res |-> Ok,
                arg |-> [event |-> last.arg.event, game |-> last.arg.game,
                         variables |-> TemplateVariables(last.arg.event, last.arg.game)]]
    /\ UNCHANGED <<games, events, templates, prev, prevEvents, prevTemplates, run, reqs>>

ManualEventContext ==
    /\ last.op = "input"
    /\ last' = [op |-> "generateTextForManualEvent", id |-> "", res |-> Ok,
                arg |-> [event |-> last.arg.event, game |-> last.arg.game,
                         variables |-> WithCustomVariables(
                                           TemplateVariables(last.arg.event, last.arg.game),
                                           last.arg.event)]]
    /\ UNCHANGED <<games, events, templates, prev, prevEvents, prevTemplates, run, reqs>>

NextContext == EventContext \/ ManualEventContext

SpecContext == InitContext /\ [][NextContext]_vars

----------------------------------------------------------------------------
(* The Templates handler, one request at a time *)

CategoryTemplateIds == {"ta", "tb", "tc"}

TemplateBodies ==
    {[templateId |-> id, categoryId |-> c] @@ d :
        id \in CategoryTemplateIds, c \in Categories,
        d \in {<<>>, [isDefault |-> TRUE], [isDefault |-> FALSE]}}
    \cup {[templateId |-> "ta"], [categoryId |-> "c1"]}

TemplateUpdates == {[isDefault |-> TRUE], [isDefault |-> FALSE], [categoryId |-> "c2"]}

NextTemplates ==
    \/ \E body \in TemplateBodies : CreateTemplate(body, CategoryTemplateIds)
    \/ \E t \in CategoryTemplateIds, updates \in TemplateUpdates : UpdateTemplate(t, updates)
    \/ \E t \in CategoryTemplateIds : DeleteTemplate(t)
    \/ \E t \in CategoryTemplateIds : SetDefaultTemplate(t)

SpecTemplates == Init /\ [][NextTemplates]_vars

----------------------------------------------------------------------------
(* Concurrent requests on the Templates handler.  setDefaultTemplate is    *)
(* its GetCommand, its QueryCommand and one UpdateCommand for each item of *)
(* the query, in any order; the other operations are one command each.     *)

SetDefaultGet(s, templateId) ==
    LET res == SetDefaultCheck(templates, templateId)
    IN  /\ reqs[s].pc = "idle"
        /\ reqs' = IF res.msg = "ok"
                   THEN [reqs EXCEPT ![s] = [pc |-> "query", id |-> templateId,
                                             held |-> templates[templateId].categoryId]]
                   ELSE reqs
        /\ Respond("setDefaultTemplate", templateId, IF res.msg = "ok" THEN Pending ELSE res, "")
        /\ UNCHANGED <<games, events, templates, run>>

SetDefaultQuery(s) ==
    /\ reqs[s].pc = "query"
    /\ LET hits == {t \in DOMAIN templates :
                       Has(templates[t], "categoryId") /\ templates[t].categoryId = reqs[s].held}
       IN  /\ reqs' = [reqs EXCEPT ![s] = IF hits = {} THEN Idle
                                          ELSE [pc |-> "update", id |-> reqs[s].id, held |-> hits]]
           /\ Respond("setDefaultTemplate.query", reqs[s].id,
                      IF hits = {} THEN Ok ELSE Pending, "")
    /\ UNCHANGED <<games, events, templates, run>>

SetDefaultWrite(s, item) ==
    /\ reqs[s].pc = "update"
    /\ item \in reqs[s].held
    /\ templates' = UpdateItem(templates, "templateId", item, SetDefaultUpdate(item, reqs[s].id))
    /\ reqs' = [reqs EXCEPT ![s] = IF reqs[s].held = {item} THEN Idle
                                   ELSE [reqs[s] EXCEPT !.held = @ \ {item}]]
    /\ Respond("setDefaultTemplate.update", reqs[s].id,
               IF reqs[s].held = {item} THEN Ok ELSE Pending, "")
    /\ UNCHANGED <<games, events, run>>

ConcTemplateBodies ==
    {[templateId |-> id, categoryId |-> "c1"] @@ d :
        id \in TemplateIds, d \in {<<>>, [isDefault |-> TRUE]}}

NextTemplatesConc ==
    \/ \E body \in ConcTemplateBodies : CreateTemplate(body, TemplateIds)
    \/ \E t \in TemplateIds : UpdateTemplate(t, [isDefault |-> TRUE])
    \/ \E t \in TemplateIds : DeleteTemplate(t)
    \/ \E s \in Slots, t \in TemplateIds : SetDefaultGet(s, t)
    \/ \E s \in Slots : SetDefaultQuery(s)
    \/ \E s \in Slots, t \in TemplateIds : SetDefaultWrite(s, t)

SpecTemplatesConc == Init /\ [][NextTemplatesConc]_vars

----------------------------------------------------------------------------
(* Concurrent requests on the Games handler.  A request is two steps: the  *)
(* GetCommand with the checks on the item read, then the UpdateCommand.    *)
(* Between the two, the request holds what it uses of the item it read.    *)

Begin(s, op, g, res, held) ==
    /\ reqs[s].pc = "idle"
    /\ reqs' = IF res.msg = "ok"
               THEN [reqs EXCEPT ![s] = [pc |-> "write", op |-> op, id |-> g, held |-> held]]
               ELSE reqs
    /\ Respond(op, g, IF res.msg = "ok" THEN Pending ELSE res, "")
    /\ UNCHANGED <<games, events, templates, run>>

Write(s, op, upd, arg) ==
    /\ reqs[s].pc = "write"
    /\ reqs[s].op = op
    /\ games' = UpdateItem(games, "gameId", reqs[s].id, upd)
    /\ reqs' = [reqs EXCEPT ![s] = Idle]
    /\ Respond(op \o ".write", reqs[s].id, Ok, arg)
    /\ UNCHANGED <<events, templates, run>>

StartGameRead(s, g) ==
    /\ reqs[s].pc = "idle"
    /\ Begin(s, "startGame", g, StartGameCheck(games, g), 0)
StartGameWrite(s, t) ==
    /\ reqs[s].pc = "write"
    /\ Write(s, "startGame", StartGameUpdate(t), t)

StopGameRead(s, g) ==
    /\ reqs[s].pc = "idle"
    /\ Begin(s, "stopGame", g, StopGameCheck(games, g), 0)
StopGameWrite(s, t) ==
    /\ reqs[s].pc = "write"
    /\ Write(s, "stopGame", StopGameUpdate(t), t)

NextPeriodRead(s, g) ==
    /\ reqs[s].pc = "idle"
    /\ Begin(s, "nextPeriod", g, NextPeriodCheck(games, g),
             IF g \in DOMAIN games THEN games[g].currentPeriod ELSE 0)
NextPeriodWrite(s) ==
    /\ reqs[s].pc = "write"
    /\ Write(s, "nextPeriod", NextPeriodUpdate(reqs[s].held), "")

ConcGameBodies == {[gameId |-> "g1"] @@ BaseGame, [gameId |-> "g1", currentPeriod |-> 7] @@ BaseGame}

NextConc ==
    \/ \E body \in ConcGameBodies : CreateGame(body)
    \/ \E s \in Slots, g \in GameIds : StartGameRead(s, g)
    \/ \E s \in Slots : StartGameWrite(s, "t1")
    \/ \E s \in Slots, g \in GameIds : StopGameRead(s, g)
    \/ \E s \in Slots : StopGameWrite(s, "t1")
    \/ \E s \in Slots, g \in GameIds : NextPeriodRead(s, g)
    \/ \E s \in Slots : NextPeriodWrite(s)

SpecConc == Init /\ [][NextConc]_vars

----------------------------------------------------------------------------
(* Concurrent requests on the Events handler.  createEvent is three steps: *)
(* it reads the game and checks the request, it writes the score of a GOAL *)
(* computed from the game it read, and it puts the event.  The requests    *)
(* carry no eventId: each event gets a new id from uuidv4().  The client   *)
(* refuses an item with an undefined value, which is what the scores of an *)
(* event are when the game read had none.                                  *)

MaxEvents == 3
EventIdSeq == <<"e1", "e2", "e3", "e4", "e5", "e6">>

InFlight == {s \in Slots : reqs[s].pc \in {"score", "put"}}

GoalBodies == {[gameId |-> "g1", eventType |-> "GOAL", teamId |-> t] : t \in Teams}

CreateEventRead(s, body) ==
    /\ reqs[s].pc = "idle"
    /\ Cardinality(DOMAIN events) + Cardinality(InFlight) < MaxEvents
    /\ LET chk == CreateEventCheck(games, body)
       IN  /\ reqs' = IF chk.msg = "ok"
                      THEN [reqs EXCEPT ![s] =
                               [pc |-> IF body.eventType = "GOAL" THEN "score" ELSE "put",
                                op |-> "createEvent", id |-> body.gameId,
                                held |-> [body |-> body, game |-> games[body.gameId]]]]
                      ELSE reqs
           /\ Respond("createEvent", body.gameId, IF chk.msg = "ok" THEN Pending ELSE chk, "")
    /\ UNCHANGED <<games, events, templates, run>>

CreateEventScoreWrite(s) ==
    /\ reqs[s].pc = "score"
    /\ games' = UpdateGameScore(games, reqs[s].held.game.gameId,
                                EventScores(reqs[s].held.game, reqs[s].held.body))
    /\ reqs' = [reqs EXCEPT ![s].pc = "put"]
    /\ Respond("createEvent.score", reqs[s].id, Pending, "")
    /\ UNCHANGED <<events, templates, run>>

CreateEventPut(s) ==
    /\ reqs[s].pc = "put"
    /\ LET body     == reqs[s].held.body
           id       == EventIdSeq[Cardinality(DOMAIN events) + 1]
           look     == CreateEventLookups(body)
           scored   == Has(reqs[s].held.game, "homeScore") /\ Has(reqs[s].held.game, "awayScore")
           res      == IF look.msg # "ok" THEN look
                       ELSE IF ~scored THEN Err(500, "undefined value in the item")
                       ELSE PutEventCheck(events, id)
           newEvent == CreateEventItem(id, body, reqs[s].held.game)
       IN  /\ IF res.msg = "ok"
              THEN \E items \in EventTypeOrders(templates, newEvent) :
                     LET gen == GenerateTextForEvent(events, games, templates,
                                                     "", "", newEvent, items)
                     IN  events' = PutItem(events, id, WithGeneratedText(newEvent, gen))
              ELSE events' = events
           /\ Respond("createEvent.put", reqs[s].id, res, id)
    /\ reqs' = [reqs EXCEPT ![s] = Idle]
    /\ UNCHANGED <<games, templates, run>>

(* GOAL requests alone on a game in progress *)
NextGoals ==
    \/ CreateGame([gameId |-> "g1"] @@ BaseGame)
    \/ \E g \in GameIds : StartGame(g, "t1")
    \/ \E s \in Slots, body \in GoalBodies : CreateEventRead(s, body)
    \/ \E s \in Slots : CreateEventScoreWrite(s)
    \/ \E s \in Slots : CreateEventPut(s)

SpecGoals == Init /\ [][NextGoals]_vars

ConcEventBodies ==
    {[gameId |-> "g1", eventType |-> "GOAL", teamId |-> "T1"],
     [gameId |-> "g1", eventType |-> "PENALTY"]}

(* createEvent next to the requests that delete, start and stop the game *)
NextEventsConc ==
    \/ CreateGame([gameId |-> "g1"] @@ BaseGame)
    \/ \E g \in GameIds : DeleteGame(g)
    \/ \E s \in Slots, g \in GameIds : StartGameRead(s, g)
    \/ \E s \in Slots : StartGameWrite(s, "t1")
    \/ \E s \in Slots, g \in GameIds : StopGameRead(s, g)
    \/ \E s \in Slots : StopGameWrite(s, "t1")
    \/ \E s \in Slots, body \in ConcEventBodies : CreateEventRead(s, body)
    \/ \E s \in Slots : CreateEventScoreWrite(s)
    \/ \E s \in Slots : CreateEventPut(s)

SpecEventsConc == Init /\ [][NextEventsConc]_vars

----------------------------------------------------------------------------
(* The boundary of the four Lambda handlers: what the handler answers to a *)
(* request, given how the operation it routes to ends.  The body of the    *)
(* request is absent (""), a JSON text or a text JSON.parse throws on; the *)
(* operation returns (0), fails with a status code (404) or throws an      *)
(* error without one (500).                                                *)

HttpMethods == {"OPTIONS", "GET", "POST", "PUT", "DELETE", "PATCH"}
Resources == {"categories", "templates", "variables", "bogus"}
PathActions == {"", "start", "generate-text", "default", "bogus"}
RequestTexts == {"", "json", "invalid"}
OperationEnds == {0, 404, 500}

HandlerRequests ==
    [httpMethod : HttpMethods, resource : Resources, resourceId : {"", "x"},
     action : PathActions, body : RequestTexts]

Response(statusCode) == [escaped |-> FALSE, statusCode |-> statusCode]
Escaped == [escaped |-> TRUE, statusCode |-> 0]

(* the catch of the games and events handlers: error.statusCode || 500 *)
Routed(end, statusCode) == IF end = 0 THEN Response(statusCode) ELSE Response(end)

GameActions == {"start", "stop", "update-score", "update-time", "next-period"}

GamesHandlerResponse(req, end) ==
    IF req.httpMethod = "OPTIONS" THEN Response(200)
    ELSE IF req.body = "invalid" THEN Response(500)
    ELSE CASE req.httpMethod = "GET" -> Routed(end, 200)
           [] req.httpMethod = "POST" -> Routed(end, 201)
           [] req.httpMethod = "PUT" ->
                IF req.resourceId = "" THEN Response(500)
                ELSE IF req.action # "" /\ req.action \notin GameActions THEN Response(500)
                ELSE Routed(end, 200)
           [] req.httpMethod = "DELETE" ->
                IF req.resourceId = "" THEN Response(500) ELSE Routed(end, 200)
           [] OTHER -> Response(500)

EventsHandlerResponse(req, end) ==
    IF req.httpMethod = "OPTIONS" THEN Response(200)
    ELSE IF req.body = "invalid" THEN Response(500)
    ELSE CASE req.httpMethod = "GET" -> Routed(end, 200)
           [] req.httpMethod = "POST" ->
                IF req.action = "generate-text" THEN Routed(end, 200) ELSE Routed(end, 201)
           [] req.httpMethod = "PUT" ->
                IF req.resourceId = "" THEN Response(500) ELSE Routed(end, 200)
           [] req.httpMethod = "DELETE" ->
                IF req.resourceId = "" THEN Response(500) ELSE Routed(end, 200)
           [] OTHER -> Response(500)

(* the routes of the templates handlers: TRUE when one of them matches *)
TemplatesRouteMatches(req) ==
    \/ /\ req.resource \in {"categories", "templates"}
       /\ \/ req.httpMethod \in {"GET", "POST"}
          \/ req.httpMethod \in {"PUT", "DELETE"} /\ req.resourceId # ""
    \/ req.resource = "variables" /\ req.httpMethod = "GET"

(* the templates handler in one file: the body is parsed before the try *)
TemplatesHandlerResponse(req, end) ==
    IF req.httpMethod = "OPTIONS" THEN Response(200)
    ELSE IF req.body = "invalid" THEN Escaped
    ELSE IF TemplatesRouteMatches(req) THEN Routed(end, 200)
    ELSE Response(404)

(* the templates handler in modules: parseBody is called inside the try *)
TemplatesModulesHandlerResponse(req, end) ==
    IF req.httpMethod = "OPTIONS" THEN Response(200)
    ELSE IF req.body = "invalid" THEN Response(500)
    ELSE IF TemplatesRouteMatches(req) THEN Routed(end, 200)
    ELSE Response(404)

InitHandlers ==
    /\ games = <<>>
    /\ events = <<>>
    /\ templates = <<>>
    /\ \E req \in HandlerRequests, end \in OperationEnds :
           last = [op |-> "request", id |-> "", res |-> Ok, arg |-> [req |-> req, end |-> end]]
    /\ prev = <<>>
    /\ prevEvents = <<>>
    /\ prevTemplates = <<>>
    /\ run = [g \in GameIds |-> -1]
    /\ reqs = [s \in Slots |-> Idle]

Answer(handler, response) ==
    /\ last' = [last EXCEPT !.op = handler, !.res = response]
    /\ UNCHANGED <<games, events, templates, prev, prevEvents, prevTemplates, run, reqs>>

GamesHandler ==
    /\ last.op = "request"
    /\ Answer("games", GamesHandlerResponse(last.arg.req, last.arg.end))

EventsHandlerBoundary ==
    /\ last.op = "request"
    /\ Answer("events", EventsHandlerResponse(last.arg.req, last.arg.end))

TemplatesHandler ==
    /\ last.op = "request"
    /\ Answer("templates", TemplatesHandlerResponse(last.arg.req, last.arg.end))

TemplatesModulesHandler ==
    /\ last.op = "request"
    /\ Answer("templates modules", TemplatesModulesHandlerResponse(last.arg.req, last.arg.end))

NextHandlers ==
    \/ GamesHandler
    \/ EventsHandlerBoundary
    \/ TemplatesHandler
    \/ TemplatesModulesHandler

SpecHandlers == InitHandlers /\ [][NextHandlers]_vars

----------------------------------------------------------------------------
(* The error taxonomy of the specification, read off the responses *)

StateMessages ==
    {"Game is already in progress", "Cannot start a completed game",
     "Can only stop a game that is in progress",
     "Can only update score for a game in progress",
     "Can only update time for a game in progress",
     "Can only change period for a game in progress",
     "Already at maximum period",
     "Events can only be created for games in progress"}

IsOk(res)             == res.msg = "ok" /\ res.code \in {200, 201}
IsStateError(res)     == res.code = 400 /\ res.msg \in StateMessages
IsNotFoundError(res)  == res.code = 404
IsReferenceError(res) == res.code = 400 /\ res.msg \in {"Game not found", "Team not found", "Player not found"}

ScoreClockFields == {"homeScore", "awayScore", "currentGameTime", "currentPeriod"}

(* the attributes of the item other than those of S are as they were *)
SameBut(new, old, S) ==
    Restrict(new, DOMAIN new \ S) = Restrict(old, DOMAIN old \ S)

----------------------------------------------------------------------------
(* Claims on the Games handler, one request at a time (Spec) *)

(* C1: a step of an operation that writes an existing game changes        *)
(* homeScore, awayScore, currentGameTime or currentPeriod only if the      *)
(* game's status is in_progress at that step.                              *)
C1_ScoreClockOnlyInProgress ==
    \A g \in DOMAIN games \cap DOMAIN prev :
        (/\ last.op \in {"updateScore", "updateTime", "nextPeriod", "updateGame", "createEvent"}
         /\ Restrict(games[g], ScoreClockFields) # Restrict(prev[g], ScoreClockFields))
        => StatusOf(prev[g]) = "in_progress"

(* C2: on a game whose status is scheduled, completed or cancelled, each   *)
(* of updateScore, updateTime and nextPeriod answers a StateError (400)    *)
(* and leaves the stored game unchanged, whatever the body.                *)
C2_MutationRefusedOutsideInProgress ==
    (/\ last.op \in {"updateScore", "updateTime", "nextPeriod"}
     /\ last.id \in DOMAIN prev
     /\ StatusOf(prev[last.id]) \in {"scheduled", "completed", "cancelled"})
    => (IsStateError(last.res) /\ games = prev)

C2_Witness ==
    /\ last.op = "updateTime"
    /\ last.id \in DOMAIN prev
    /\ StatusOf(prev[last.id]) = "cancelled"
    /\ IsStateError(last.res)

(* C3: startGame on a completed or in_progress game answers a StateError   *)
(* and leaves the game unchanged; on a scheduled game it succeeds, sets    *)
(* status to in_progress and records startTime; on an absent game it       *)
(* answers NotFoundError.                                                  *)
C3_StartGame ==
    last.op = "startGame" =>
        IF last.id \notin DOMAIN prev
        THEN IsNotFoundError(last.res) /\ games = prev
        ELSE /\ StatusOf(prev[last.id]) \in {"completed", "in_progress"}
                => (IsStateError(last.res) /\ games = prev)
             /\ StatusOf(prev[last.id]) = "scheduled"
                => /\ IsOk(last.res)
                   /\ games[last.id].status = "in_progress"
                   /\ last.arg \in Times
                   /\ games[last.id].startTime = last.arg

C3_Witness ==
    /\ last.op = "startGame"
    /\ last.id \in DOMAIN prev
    /\ StatusOf(prev[last.id]) = "scheduled"
    /\ IsOk(last.res)
    /\ games[last.id].status = "in_progress"

(* C5: stopGame answers a StateError and leaves the game unchanged unless  *)
(* the status is in_progress; when it is, stopGame sets status to          *)
(* completed and records endTime, leaving scores, period and clock alone.  *)
C5_StopGame ==
    (last.op = "stopGame" /\ last.id \in DOMAIN prev) =>
        IF StatusOf(prev[last.id]) # "in_progress"
        THEN IsStateError(last.res) /\ games = prev
        ELSE /\ IsOk(last.res)
             /\ games[last.id].status = "completed"
             /\ last.arg \in Times
             /\ games[last.id].endTime = last.arg
             /\ Restrict(games[last.id], ScoreClockFields) = Restrict(prev[last.id], ScoreClockFields)

C5_Witness ==
    /\ last.op = "stopGame"
    /\ last.id \in DOMAIN prev
    /\ StatusOf(prev[last.id]) = "in_progress"
    /\ prev[last.id].homeScore = 1
    /\ games[last.id].status = "completed"

(* C7 as stated: after create and start, three next-period calls leave     *)
(* period 4 and clock "5:00", and the fourth call answers a StateError     *)
(* without changing the game.                                              *)
C7_FourthCallFails ==
    \A g \in GameIds :
        /\ run[g] = 4 => (games[g].currentPeriod = 4 /\ games[g].currentGameTime = T500)
        /\ (run[g] = 5 /\ last.op = "nextPeriod" /\ last.id = g)
           => (IsStateError(last.res) /\ games = prev)

(* C7 as amended: after create and start, three next-period calls leave    *)
(* period 4 and clock "5:00"; the fourth call succeeds and leaves period 5 *)
(* and clock "5:00"; the fifth call answers a StateError (maximum period)  *)
(* without changing the game.                                              *)
C7_FifthCallFails ==
    \A g \in GameIds :
        /\ run[g] = 4 => (games[g].currentPeriod = 4 /\ games[g].currentGameTime = T500)
        /\ (run[g] = 5 /\ last.op = "nextPeriod" /\ last.id = g)
           => /\ IsOk(last.res)
              /\ games[g].currentPeriod = 5
              /\ games[g].currentGameTime = T500
        /\ (run[g] = 6 /\ last.op = "nextPeriod" /\ last.id = g)
           => /\ IsStateError(last.res)
              /\ last.res.msg = "Already at maximum period"
              /\ games = prev

C7_Witness ==
    \E g \in GameIds :
        /\ run[g] = 6
        /\ last.op = "nextPeriod"
        /\ last.id = g
        /\ IsStateError(last.res)
        /\ games[g].currentPeriod = 5

(* C8: a successful nextPeriod on an in-progress game at period p < 5 sets *)
(* currentPeriod to p + 1, the clock to "20:00" when p + 1 <= 3 and to     *)
(* "5:00" otherwise, and leaves status, homeScore and awayScore unchanged. *)
C8_NextPeriodEffect ==
    (last.op = "nextPeriod" /\ IsOk(last.res)) =>
        LET old == prev[last.id]
            new == games[last.id]
        IN  /\ old.status = "in_progress"
            /\ old.currentPeriod < 5
            /\ new.currentPeriod = old.currentPeriod + 1
            /\ new.currentGameTime = IF old.currentPeriod + 1 <= 3 THEN T2000 ELSE T500
            /\ SameBut(new, old, {"currentPeriod", "currentGameTime"})

C8_Witness ==
    /\ last.op = "nextPeriod"
    /\ IsOk(last.res)
    /\ prev[last.id].currentPeriod = 2
    /\ games[last.id].currentPeriod = 3
    /\ games[last.id].currentGameTime = T2000

----------------------------------------------------------------------------
(* Claims on createGame and updateScore (Spec) *)

(* C22: the game a successful createGame stores has status scheduled,      *)
(* period 1, clock "20:00" and both scores 0, whatever status, period or   *)
(* score the request body carried.                                         *)
C22_CreateGameInitialValues ==
    (last.op = "createGame" /\ IsOk(last.res)) =>
        /\ last.id \in DOMAIN games
        /\ games[last.id].status = "scheduled"
        /\ games[last.id].currentPeriod = 1
        /\ games[last.id].currentGameTime = T2000
        /\ games[last.id].homeScore = 0
        /\ games[last.id].awayScore = 0

C22_Witness ==
    /\ last.op = "createGame" /\ last.res.code = 201
    /\ last.id \notin DOMAIN prev
    /\ games[last.id].status = "scheduled" /\ games[last.id].homeScore = 0

ValidationMessages ==
    {"Home team ID is required", "Away team ID is required", "Game date is required"}

(* what the claim expects of createGame on the body, from the table tbl *)
CreateGameExpected(tbl, body, res) ==
    IF ~Truthy(body, "homeTeamId") \/ ~Truthy(body, "awayTeamId") \/ ~Truthy(body, "gameDate")
    THEN res.code = 400 /\ res.msg \in ValidationMessages
    ELSE IF body.homeTeamId \notin Teams \/ body.awayTeamId \notin Teams
    THEN IsReferenceError(res)
    ELSE IF Truthy(body, "gameId") /\ body.gameId \in DOMAIN tbl
    THEN res.code = 409
    ELSE IsOk(res)

(* C23: createGame fails with a validation error (400) when homeTeamId,    *)
(* awayTeamId or gameDate is absent, otherwise with a reference error      *)
(* (400) when a team does not exist, otherwise with a conflict (409) when  *)
(* the gameId of the body is that of a stored game; a createGame that      *)
(* fails leaves the table of games as it was.                              *)
C23_CreateGameFailures ==
    [][\/ last'.op # "createGame"
       \/ \A body \in CreateGameBodies :
          CreateGame(body) =>
              /\ CreateGameExpected(games, body, last'.res)
              /\ ~IsOk(last'.res) => games' = games]_vars

C23_Witness ==
    /\ last.op = "createGame" /\ last.res.code = 409
    /\ last.id \in DOMAIN prev
    /\ games = prev
    /\ StatusOf(games[last.id]) # "scheduled"

(* the score fields the body supplies *)
SuppliedScores(body) == {f \in {"homeScore", "awayScore"} : Has(body, f)}

(* C24: updateScore on a game in progress changes no attribute other than  *)
(* the scores the body supplies (status, period and clock included), and   *)
(* with a body that supplies neither score it fails with a validation      *)
(* error (400) and changes nothing.                                        *)
C24_UpdateScoreFrame ==
    [][\/ last'.op # "updateScore"
       \/ \A g \in GameIds, body \in UpdateScoreBodies :
          (/\ g \in DOMAIN games
           /\ StatusOf(games[g]) = "in_progress"
           /\ UpdateScore(g, body)) =>
              /\ g \in DOMAIN games'
              /\ SameBut(games'[g], games[g], SuppliedScores(body))
              /\ SuppliedScores(body) = {} =>
                     /\ last'.res = Err(400, "Either homeScore or awayScore must be provided")
                     /\ games' = games]_vars

C24_Witness ==
    /\ last.op = "updateScore" /\ IsOk(last.res)
    /\ last.id \in DOMAIN games /\ last.id \in DOMAIN prev
    /\ games[last.id].awayScore = 1 /\ prev[last.id].awayScore = 1
    /\ games[last.id].homeScore = 1 /\ prev[last.id].homeScore = 0
    /\ games[last.id].currentPeriod = 2

----------------------------------------------------------------------------
(* Claims on createEvent, one request at a time (SpecEvents) *)

(* C9 as stated: a successful createEvent of type GOAL with teamId equal   *)
(* to the game's homeTeamId raises homeScore by exactly 1 and leaves       *)
(* awayScore unchanged, symmetrically for awayTeamId, and the scores on    *)
(* the event equal the game's stored scores after the update.              *)
C9_GoalBumpsNamedSide ==
    (last.op = "createEvent" /\ IsOk(last.res) /\ events[last.arg].eventType = "GOAL") =>
        LET ev  == events[last.arg]
            old == prev[last.id]
            new == games[last.id]
        IN  /\ ev.teamId = old.homeTeamId
               => (new.homeScore = old.homeScore + 1 /\ new.awayScore = old.awayScore)
            /\ ev.teamId = old.awayTeamId
               => (new.awayScore = old.awayScore + 1 /\ new.homeScore = old.homeScore)
            /\ ev.homeScore = new.homeScore
            /\ ev.awayScore = new.awayScore

(* C9 as amended: the same, the away side being the one raised when teamId *)
(* equals awayTeamId and differs from homeTeamId.                          *)
C9_GoalBumpsOneSide ==
    (last.op = "createEvent" /\ IsOk(last.res) /\ events[last.arg].eventType = "GOAL") =>
        LET ev  == events[last.arg]
            old == prev[last.id]
            new == games[last.id]
        IN  /\ ev.teamId = old.homeTeamId
               => (new.homeScore = old.homeScore + 1 /\ new.awayScore = old.awayScore)
            /\ (ev.teamId = old.awayTeamId /\ old.awayTeamId # old.homeTeamId)
               => (new.awayScore = old.awayScore + 1 /\ new.homeScore = old.homeScore)
            /\ ev.homeScore = new.homeScore
            /\ ev.awayScore = new.awayScore

C9_Witness ==
    /\ last.op = "createEvent"
    /\ IsOk(last.res)
    /\ last.arg \in DOMAIN events \ DOMAIN prevEvents
    /\ events[last.arg].eventType = "GOAL"
    /\ events[last.arg].teamId = prev[last.id].awayTeamId
    /\ prev[last.id].awayTeamId # prev[last.id].homeTeamId
    /\ games[last.id].awayScore = prev[last.id].awayScore + 1

(* C10: a createEvent that names a gameId and an eventType answers a       *)
(* ReferenceError when no game is stored under gameId and a StateError     *)
(* when the game is scheduled, completed or cancelled; in both cases no    *)
(* event is persisted and the game is unchanged.                           *)
C10_CreateEventNeedsGameInProgress ==
    (/\ last.op = "createEvent"
     /\ last.res.msg \notin {"Game ID is required", "Event type is required"}) =>
        /\ last.id \notin DOMAIN prev
           => /\ IsReferenceError(last.res)
              /\ last.res.msg = "Game not found"
              /\ games = prev
              /\ events = prevEvents
        /\ (last.id \in DOMAIN prev
            /\ StatusOf(prev[last.id]) \in {"scheduled", "completed", "cancelled"})
           => /\ IsStateError(last.res)
              /\ games = prev
              /\ events = prevEvents

C10_Witness ==
    /\ last.op = "createEvent"
    /\ last.id \in DOMAIN prev
    /\ StatusOf(prev[last.id]) = "completed"
    /\ prev[last.id].homeScore = 1
    /\ IsStateError(last.res)

(* C11: a createEvent that answers an error, whatever the reason, has      *)
(* written nothing: no event is persisted and the scores of the game are   *)
(* those from before the call.                                             *)
C11_ErrorWritesNothing ==
    (last.op = "createEvent" /\ ~IsOk(last.res)) =>
        /\ events = prevEvents
        /\ games = prev

(* the requests of C12: a GOAL for the stored game g whose teamId is       *)
(* absent or names neither side                                            *)
GoalOnNoSide(tbl) ==
    {body \in CreateEventBodies :
        /\ Truthy(body, "gameId") /\ body.gameId \in DOMAIN tbl
        /\ Has(body, "eventType") /\ body.eventType = "GOAL"
        /\ \/ ~Truthy(body, "teamId")
           \/ /\ body.teamId # TeamOf(tbl[body.gameId], "homeTeamId")
              /\ body.teamId # TeamOf(tbl[body.gameId], "awayTeamId")}

(* C12: a createEvent step for a GOAL whose teamId is absent, or is        *)
(* neither the homeTeamId nor the awayTeamId of the game, answers 400 and  *)
(* leaves the game and the events as they were; when the game is in        *)
(* progress the answer is the validation error on teamId.                  *)
C12_GoalNeedsTeamOfGame ==
    [][ \/ /\ last'.res.code = 400
           /\ games' = games
           /\ events' = events
           /\ (last'.id \in DOMAIN games /\ StatusOf(games[last'.id]) = "in_progress")
              => last'.res.msg \in {"Team ID is required for goal events",
                                    "Invalid team ID for this game"}
        \/ \A body \in GoalOnNoSide(games) : ~CreateEvent(body, {"e1"}) ]_vars

C12_Witness ==
    /\ last.op = "createEvent"
    /\ last.res = Err(400, "Invalid team ID for this game")
    /\ prev[last.id].homeScore = 1
    /\ games = prev

(* the requests of C13: an eventType other than GOAL *)
NonGoalBodies == {body \in CreateEventBodies : Truthy(body, "eventType") /\ body.eventType # "GOAL"}

(* C13: a createEvent step for an eventType other than GOAL leaves every   *)
(* game as it was, and the event it persists carries the homeScore and     *)
(* awayScore of the game as they were when it was created.                 *)
C13_NonGoalLeavesGame ==
    [][ \/ /\ games' = games
           /\ last'.op = "createEvent"
           /\ IsOk(last'.res)
              => /\ last'.arg \in DOMAIN events' \ DOMAIN events
                 /\ events'[last'.arg].homeScore = games[last'.id].homeScore
                 /\ events'[last'.arg].awayScore = games[last'.id].awayScore
        \/ \A body \in NonGoalBodies : ~CreateEvent(body, {"e1"}) ]_vars

C13_Witness ==
    /\ last.op = "createEvent"
    /\ IsOk(last.res)
    /\ last.arg \in DOMAIN events \ DOMAIN prevEvents
    /\ events[last.arg].eventType = "PENALTY"
    /\ events[last.arg].homeScore = 1
    /\ games = prev

----------------------------------------------------------------------------
(* Claims on text generation (SpecText) *)

(* the templates stored for the lower-cased type of the event *)
TemplatesOfType(tbl, event) ==
    LET lower == IF event.eventType = "GOAL" THEN "goal"
                 ELSE IF event.eventType = "PENALTY" THEN "penalty" ELSE event.eventType
    IN  {t \in DOMAIN tbl : Has(tbl[t], "eventType") /\ tbl[t].eventType = lower}

(* C14: the text generation never fails a createEvent; a createEvent that  *)
(* succeeds has persisted its event: without generatedText and templateId  *)
(* when no template of the type is stored or the template has no text,     *)
(* and with the generated text and the id of the template used otherwise.  *)
C14_EventPersistsWithoutText ==
    (last.op = "createEvent") =>
        /\ last.res.msg \notin {"No template found for event type", "TypeError",
                                "Template not found"}
        /\ IsOk(last.res) =>
              /\ last.arg \in DOMAIN events
              /\ LET ev   == events[last.arg]
                     hits == TemplatesOfType(prevTemplates, ev)
                 IN  /\ (hits = {} \/ \A t \in hits : ~Has(prevTemplates[t], "text"))
                        => (~Has(ev, "generatedText") /\ ~Has(ev, "templateId"))
                     /\ (hits # {} /\ \A t \in hits : Has(prevTemplates[t], "text"))
                        => /\ Has(ev, "generatedText") /\ Has(ev, "templateId")
                           /\ ev.templateId \in hits
                           /\ ev.generatedText
                                = <<DigitChars[ev.homeScore + 1], "-", DigitChars[ev.awayScore + 1]>>

(* C14 as amended: the same, an event without generated text keeping the   *)
(* generatedText and templateId that the request body itself carried.      *)
C14_EventPersistsWithoutAddedText ==
    (last.op = "createEvent") =>
        /\ last.res.msg \notin {"No template found for event type", "TypeError",
                                "Template not found"}
        /\ IsOk(last.res) =>
              /\ last.arg \in DOMAIN events
              /\ LET ev   == events[last.arg]
                     hits == TemplatesOfType(prevTemplates, ev)
                 IN  /\ (hits = {} \/ \A t \in hits : ~Has(prevTemplates[t], "text"))
                        => /\ ~Has(ev, "generatedText")
                           /\ Has(ev, "templateId") => ev.templateId \notin DOMAIN prevTemplates
                     /\ (hits # {} /\ \A t \in hits : Has(prevTemplates[t], "text"))
                        => /\ Has(ev, "generatedText") /\ Has(ev, "templateId")
                           /\ ev.templateId \in hits
                           /\ ev.generatedText
                                = <<DigitChars[ev.homeScore + 1], "-", DigitChars[ev.awayScore + 1]>>

C14_Witness ==
    /\ last.op = "createEvent"
    /\ IsOk(last.res)
    /\ last.arg \in DOMAIN events \ DOMAIN prevEvents
    /\ TemplatesOfType(prevTemplates, events[last.arg]) = {}
    /\ prevTemplates # <<>>
    /\ ~Has(events[last.arg], "generatedText")
    /\ ~Has(events[last.arg], "templateId")

(* the generate-text steps on a stored event whose game is stored *)
IsGenerateForEvent ==
    /\ last.op = "generateTextForEvent"
    /\ last.id \in DOMAIN prevEvents
    /\ Truthy(prevEvents[last.id], "gameId") => prevEvents[last.id].gameId \in DOMAIN prev

(* the generate-text step of last found no template: the template id given *)
(* is not stored, or none is given and no template has the type            *)
NoTemplateResolvable ==
    \/ /\ IsGenerateForEvent
       /\ IF Truthy(last.arg.req.body, "templateId")
          THEN last.arg.req.body.templateId \notin DOMAIN prevTemplates
          ELSE TemplatesOfType(prevTemplates, prevEvents[last.id]) = {}
    \/ /\ last.op = "generateTextForManualEvent"
       /\ last.arg.req.body.templateId \notin DOMAIN prevTemplates

(* C15: a generate-text request for which no template is resolvable, or    *)
(* whose template id is not stored, is answered by an error, and the error *)
(* is a template-not-found error (400 or 404), not an internal error (500).*)
C15_NoTemplateIsNotInternal ==
    NoTemplateResolvable =>
        /\ ~IsOk(last.res)
        /\ last.res.code \in {400, 404}

(* C16: a step of the handler on a generate-text request, for a stored or  *)
(* a manual event, leaves every stored event, game and template as it was. *)
C16_GenerateTextReadOnly ==
    [][ \/ UNCHANGED <<games, events, templates>>
        \/ \A req \in GenerateTextRequests : ~EventsHandler(req, {"e1"}) ]_vars

C16_Witness ==
    /\ last.op = "generateTextForEvent"
    /\ IsOk(last.res)
    /\ last.arg.req.httpMethod = "PUT"
    /\ Has(last.arg.req.body, "templateId")
    /\ ~Has(events[last.id], "generatedText")
    /\ ~Has(events[last.id], "templateId")
    /\ last.arg.out.text = <<"1", "-", "0">>

(* C27: a step of the handler on a POST to /events that carries            *)
(* action=generate-text in its query string is a text generation, and it   *)
(* leaves the stored events and the games (scores included) as they were.  *)
C27_QueryActionGeneratesOnly ==
    [][ \/ /\ UNCHANGED <<games, events>>
           /\ last'.op \in {"generateTextForEvent", "generateTextForManualEvent", "handler"}
        \/ \A req \in QueryActionRequests : ~EventsHandler(req, {"e1"}) ]_vars

(* C17: a generate-text step with no template id on a stored event queries *)
(* the templates whose eventType is the lower-cased type of the event; it  *)
(* uses a template with isDefault = TRUE when the result holds one, at any *)
(* position, else the first item of the result, and answers that no        *)
(* template was found when the result is empty.                            *)
C17_DefaultTemplateResolution ==
    (IsGenerateForEvent /\ ~Truthy(last.arg.req.body, "templateId")) =>
        LET items    == last.arg.items
            hits     == TemplatesOfType(prevTemplates, prevEvents[last.id])
            defaults == {t \in hits : IsDefault(prevTemplates[t])}
        IN  /\ {items[i] : i \in DOMAIN items} = hits
            /\ hits = {} => last.res.msg = "No template found for event type"
            /\ (hits # {} /\ IsOk(last.res)) =>
                  /\ defaults # {} => last.arg.out.templateId \in defaults
                  /\ defaults = {} => last.arg.out.templateId = items[1]
            /\ (hits # {} /\ ~IsOk(last.res)) =>
                  /\ last.res.msg = "TypeError"
                  /\ \E t \in hits : ~Has(prevTemplates[t], "text")

C17_Witness ==
    /\ IsGenerateForEvent
    /\ ~Truthy(last.arg.req.body, "templateId")
    /\ IsOk(last.res)
    /\ Len(last.arg.items) = 2
    /\ ~IsDefault(prevTemplates[last.arg.items[1]])
    /\ IsDefault(prevTemplates[last.arg.items[2]])
    /\ last.arg.out.templateId = last.arg.items[2]

----------------------------------------------------------------------------
(* Claim on fillTemplate (SpecFill) *)

(* the substitution C18 describes: each {{key}} of the text whose key is among *)
(* the variables gives way to the value of the key, the rest of the text      *)
(* stays                                                                       *)
RECURSIVE Substituted(_, _)
Substituted(templateText, variables) ==
    IF templateText = <<>> THEN <<>>
    ELSE LET hit == {i \in 1..Len(variables) : MatchAt(templateText, Placeholder(variables[i][1]))}
         IN  IF hit = {}
             THEN <<Head(templateText)>> \o Substituted(Tail(templateText), variables)
             ELSE LET i == CHOOSE j \in hit : TRUE
                  IN  variables[i][2]
                      \o Substituted(SubSeq(templateText, 6, Len(templateText)), variables)

(* C18: fillTemplate(text, context) is the text with every {{key}} whose   *)
(* key is in context replaced by the value of the key, every other         *)
(* placeholder and all other text left as they are.                        *)
C18_FillTemplateSubstitutes ==
    last.op = "fillTemplate" =>
        last.arg.text = Substituted(last.arg.templateText, last.arg.variables)

----------------------------------------------------------------------------
(* Claims on the substitution context (SpecContext) *)

ContextBuilt == last.op \in {"generateTextForEvent", "generateTextForManualEvent"}

(* the value the context carries under key *)
ContextValue(variables, key) ==
    LET i == CHOOSE j \in 1..Len(variables) : variables[j][1] = key
    IN  variables[i][2]

(* the status the scores of the context call for *)
StatusOfContext(variables) ==
    LET h == ParseInt(ContextValue(variables, "homeScore")).val
        a == ParseInt(ContextValue(variables, "awayScore")).val
    IN  IF h > a THEN "lead" ELSE IF h < a THEN "trail" ELSE "tied"

ScoreStatusAgrees ==
    ContextValue(last.arg.variables, "scoreStatus") = <<StatusOfContext(last.arg.variables)>>

(* C21, as stated: determineScoreStatus is "lead" exactly when home is     *)
(* above away, "trail" exactly when below, "tied" exactly when level, and  *)
(* the scoreStatus of every substitution context is the status of the      *)
(* homeScore and awayScore that context carries.                           *)
C21_StatusOfCarriedScores ==
    ContextBuilt =>
        /\ \A h, a \in ContextScores :
               /\ DetermineScoreStatus(h, a) = "lead" <=> h > a
               /\ DetermineScoreStatus(h, a) = "trail" <=> h < a
               /\ DetermineScoreStatus(h, a) = "tied" <=> h = a
        /\ ScoreStatusAgrees

(* C21, amended: the same, where the scoreStatus of the context is the     *)
(* status of the scores it carries for generateTextForEvent, and for       *)
(* generateTextForManualEvent when the request carries no var_homeScore    *)
(* (nor another var_ override of a score or of the status).                *)
C21_StatusOfComputedScores ==
    ContextBuilt =>
        /\ \A h, a \in ContextScores :
               /\ DetermineScoreStatus(h, a) = "lead" <=> h > a
               /\ DetermineScoreStatus(h, a) = "trail" <=> h < a
               /\ DetermineScoreStatus(h, a) = "tied" <=> h = a
        /\ (last.op = "generateTextForEvent" \/ ~Has(last.arg.event, "var_homeScore"))
               => ScoreStatusAgrees

C21_Witness ==
    /\ last.op = "generateTextForManualEvent"
    /\ ~Has(last.arg.event, "var_homeScore")
    /\ Has(last.arg.event, "homeScore") /\ last.arg.event.homeScore < 0
    /\ ~Has(last.arg.event, "awayScore") /\ Has(last.arg.game, "awayScore")
    /\ ContextValue(last.arg.variables, "scoreStatus") = <<"trail">>

----------------------------------------------------------------------------
(* Claims on the boundary of the handlers (SpecHandlers) *)

Handlers == {"games", "events", "templates", "templates modules"}

(* the actions the handler that answered knows *)
KnownActions(handler) ==
    IF handler = "games" THEN GameActions \cup {""}
    ELSE IF handler = "events" THEN {"generate-text", ""}
    ELSE {"default", ""}

(* a request with a body that is not JSON, or with a method or an action   *)
(* the handler does not support                                            *)
Unsupported(handler, req) ==
    /\ req.httpMethod # "OPTIONS"
    /\ \/ req.body = "invalid"
       \/ req.httpMethod \notin {"GET", "POST", "PUT", "DELETE"}
       \/ req.httpMethod = "PUT" /\ req.resourceId # "" /\ req.action \notin KnownActions(handler)

(* C26: no handler lets an exception escape, and each answers a request    *)
(* whose body is not JSON, or whose method or action it does not support,  *)
(* with an error response.                                                 *)
C26_NoExceptionEscapes ==
    last.op \in Handlers =>
        /\ ~last.res.escaped
        /\ Unsupported(last.op, last.arg.req) => last.res.statusCode >= 400

----------------------------------------------------------------------------
(* Claims on the writers of the scores (SpecScores, SpecGoals,             *)
(* SpecEventsConc)                                                         *)

(* C25: in every reachable state the two scores of every game are          *)
(* non-negative integers.                                                  *)
C25_ScoresNonNegative ==
    \A g \in DOMAIN games :
        /\ Has(games[g], "homeScore") => games[g].homeScore \in Nat
        /\ Has(games[g], "awayScore") => games[g].awayScore \in Nat

(* the stored GOAL events of the game for the team *)
GoalsOf(g, team) ==
    {e \in DOMAIN events : /\ events[e].gameId = g
                           /\ events[e].eventType = "GOAL"
                           /\ events[e].teamId = team}

(* C28: with GOAL requests as the only writers of a game that started at   *)
(* 0-0, whenever no request is in flight homeScore is the number of stored *)
(* GOAL events of the home team and awayScore that of the away team, and   *)
(* no step lowers a score.                                                 *)
C28_ScoreCountsGoals ==
    /\ [](\A g \in DOMAIN games :
            InFlight = {} =>
                /\ games[g].homeScore = Cardinality(GoalsOf(g, games[g].homeTeamId))
                /\ games[g].awayScore = Cardinality(GoalsOf(g, games[g].awayTeamId)))
    /\ [][\A g \in DOMAIN games \cap DOMAIN games' :
              /\ games'[g].homeScore >= games[g].homeScore
              /\ games'[g].awayScore >= games[g].awayScore]_vars

(* C29: a game item comes into being by createGame alone, so that a game   *)
(* that was deleted stays absent until it is created again, and every game *)
(* item has homeTeamId, awayTeamId and gameDate.                           *)
C29_DeletedGameStaysDeleted ==
    /\ [](\A g \in DOMAIN games :
            Has(games[g], "homeTeamId") /\ Has(games[g], "awayTeamId") /\ Has(games[g], "gameDate"))
    /\ [][\A g \in GameIds :
              (g \notin DOMAIN games /\ g \in DOMAIN games') => last'.op = "createGame"]_vars

(* C30: once the status of the game is completed, no step of createEvent   *)
(* stores an event or changes the score.                                   *)
C30_NoEventAfterCompleted ==
    [][\A g \in DOMAIN games :
          (/\ StatusOf(games[g]) = "completed"
           /\ last'.op \in {"createEvent", "createEvent.score", "createEvent.put"}
           /\ last'.id = g) =>
              /\ events' = events
              /\ g \in DOMAIN games'
              /\ Restrict(games'[g], {"homeScore", "awayScore"})
                     = Restrict(games[g], {"homeScore", "awayScore"})]_vars

----------------------------------------------------------------------------
(* Claims on the Templates handler (SpecTemplates, SpecTemplatesConc) *)

DefaultsOf(tbl, c) ==
    {t \in DOMAIN tbl : Has(tbl[t], "categoryId") /\ tbl[t].categoryId = c /\ IsDefault(tbl[t])}

(* C19: in every state, each categoryId has at most one template with      *)
(* isDefault = TRUE, whatever the sequence or interleaving of               *)
(* createTemplate, updateTemplate, deleteTemplate and the steps of          *)
(* setDefaultTemplate.                                                      *)
C19_AtMostOneDefault ==
    \A c \in Categories : Cardinality(DefaultsOf(templates, c)) <= 1

(* C20: a setDefaultTemplate(t) with no other request between its steps     *)
(* answers not-found and changes no template when t is not stored; when it  *)
(* answers success, t has isDefault = TRUE, every other template of t's     *)
(* categoryId has isDefault = FALSE, nothing else of these templates has    *)
(* changed, and the templates of other categories are as they were.         *)
C20_SetDefaultTemplate ==
    (last.op = "setDefaultTemplate") =>
        /\ last.id \notin DOMAIN prevTemplates
           => (last.res = Err(404, "Template not found") /\ templates = prevTemplates)
        /\ (last.id \in DOMAIN prevTemplates /\ Has(prevTemplates[last.id], "categoryId"))
           => IsOk(last.res)
        /\ IsOk(last.res) =>
              LET c == prevTemplates[last.id].categoryId
              IN  /\ DOMAIN templates = DOMAIN prevTemplates
                  /\ DefaultsOf(templates, c) = {last.id}
                  /\ \A t \in DOMAIN templates :
                        IF Has(prevTemplates[t], "categoryId") /\ prevTemplates[t].categoryId = c
                        THEN /\ Has(templates[t], "isDefault")
                             /\ templates[t].isDefault = (t = last.id)
                             /\ SameBut(templates[t], prevTemplates[t], {"isDefault"})
                        ELSE templates[t] = prevTemplates[t]

C20_Witness ==
    /\ last.op = "setDefaultTemplate"
    /\ IsOk(last.res)
    /\ last.id = "tb"
    /\ DefaultsOf(prevTemplates, "c1") = {"ta"}
    /\ DefaultsOf(templates, "c1") = {"tb"}
    /\ DefaultsOf(prevTemplates, "c2") = {"tc"}
    /\ DefaultsOf(templates, "c2") = {"tc"}

----------------------------------------------------------------------------
(* Claims on concurrent requests (SpecConc) *)

(* C4: once the status of a game has become completed, no step of a        *)
(* startGame or stopGame request, however the requests interleave, makes   *)
(* it in_progress or scheduled again.                                      *)
C4_CompletedIsTerminal ==
    \A g \in DOMAIN games \cap DOMAIN prev :
        StatusOf(prev[g]) = "completed" => StatusOf(games[g]) = "completed"

(* C6: no sequence or interleaving of nextPeriod calls on a game made by   *)
(* createGame gives a currentPeriod greater than 5, and a nextPeriod that  *)
(* is called when currentPeriod is 5 answers a StateError and leaves the   *)
(* game unchanged.                                                         *)
C6_PeriodAtMostFive ==
    /\ \A g \in DOMAIN games : games[g].currentPeriod <= 5
    /\ (last.op = "nextPeriod" /\ last.id \in DOMAIN prev /\ prev[last.id].currentPeriod = 5)
       => (IsStateError(last.res) /\ games = prev)

C6_Witness ==
    /\ last.op = "nextPeriod"
    /\ last.id \in DOMAIN prev
    /\ prev[last.id].currentPeriod = 5
    /\ StatusOf(prev[last.id]) = "in_progress"
    /\ last.res.msg = "Already at maximum period"
    /\ \E s \in Slots : reqs[s].pc = "write"

====
